---- MODULE Spec2Model ----
(***************************************************************************)
(* Gmail push-notification processor: the webhook pipeline                 *)
(* (app/api/gmail/webhook/route.ts), the Redis-backed bounded store        *)
(* (lib/email-store-kv.ts) and the read / clear surface built on it.       *)
(*                                                                         *)
(* Granularity: JavaScript runs each handler to completion between two     *)
(* awaits, and the only state handlers share is the Redis backend, which   *)
(* serialises single commands.  One action is therefore one awaited        *)
(* provider or backend call together with the synchronous code that        *)
(* follows it up to the next await.                                        *)
(***************************************************************************)
EXTENDS Integers, Sequences, FiniteSets, TLC

(***************************************************************************)
(* Bounds of the model.                                                    *)
(***************************************************************************)
\* Concurrent webhook POST requests (one notification each).
NumPosts == 2
\* The store cap (maxEmails = 100 in the source), scaled down.
maxEmails == 2
\* The 30-day expiry of a by-id key and of the stats key, in clock ticks.
TTL == 1
\* The clock stops ticking here.
MaxTime == 2
\* Provider or backend calls that may fail in one run.
MaxFaults == 1
\* Requests that follow the first one on a handler that takes them in turn.
MaxRequests == 1

Posts == 1..NumPosts

\* An optional value: <<>> is null / undefined / a missing key, <<v>> is v.
None == <<>>
Some(v) == <<v>>

\* JavaScript's undefined, where the code tells it from null: a property of
\* this value is left out of a JSON body.
Undefined == <<"undefined", "undefined">>

(***************************************************************************)
(* The Redis commands the store uses, with Redis' index conventions.       *)
(***************************************************************************)
\* The 0-based inclusive range [start, stop] of lst; negative indexes count
\* from the end, and out-of-range indexes are clamped.
RangeOf(lst, start, stop) ==
    LET n  == Len(lst)
        s0 == IF start < 0 THEN n + start ELSE start
        e0 == IF stop < 0 THEN n + stop ELSE stop
        s  == IF s0 < 0 THEN 0 ELSE s0
        e  == IF e0 >= n THEN n - 1 ELSE e0
    IN  IF s > e \/ s >= n THEN <<>> ELSE SubSeq(lst, s + 1, e + 1)

\* LPUSH key v
LPushTail(lst, v) == lst \o <<v>>
LPushDedup(lst, v) == <<v>> \o SelectSeq(lst, LAMBDA e : e.id # v.id)
LPushOverwrites(lst, v) == IF lst = <<>> THEN <<v>> ELSE <<v>> \o Tail(lst)
LPush(lst, v) == <<v>> \o lst

\* LRANGE key start stop
LRange(lst, start, stop) == RangeOf(lst, start, stop)

\* LTRIM key start stop
LTrimFromHead(lst, start, stop) ==
    IF Len(lst) > stop - start + 1
    THEN SubSeq(lst, Len(lst) - (stop - start), Len(lst)) ELSE lst
LTrimKeepsOneMore(lst, start, stop) == RangeOf(lst, start, stop + 1)
LTrim(lst, start, stop) == RangeOf(lst, start, stop)

\* LLEN key
LLen(lst) == Len(lst)

\* SET key v EX ttl, at time t: the key lives while the clock is before exp.
SetExNoTtl(v, ttl, t) == [val |-> v, exp |-> t]
SetEx(v, ttl, t) == [val |-> v, exp |-> t + ttl]

\* Whether a key entry is still alive at time t.
Alive(entry, t) == t < entry.exp

\* GET on a string key held as an optional entry, at time t.
Get(optEntry, t) ==
    IF optEntry # None /\ Alive(optEntry[1], t) THEN Some(optEntry[1].val) ELSE None


(***************************************************************************)
(* Notification cursors (GmailNotification.historyId: string | number or   *)
(* missing).  s is the value's text as a sequence of characters, so that   *)
(* String(), startsWith and the ^\d+$ test are computed, not assumed.      *)
(***************************************************************************)
Digits == {"0", "1", "2", "3", "4", "5", "6", "7", "8", "9"}

CurAbsent == [t |-> "absent", s |-> <<>>]
CurTest   == [t |-> "str", s |-> <<"t", "e", "s", "t", "-", "1", "2", "3">>]
CurStr    == [t |-> "str", s |-> <<"1", "2">>]
CurNum    == [t |-> "num", s |-> <<"7">>]
CurBad    == [t |-> "str", s |-> <<"1", "a">>]
CurEmpty  == [t |-> "str", s |-> <<>>]
CurNeg    == [t |-> "num", s |-> <<"-", "5">>]

Cursors == {CurAbsent, CurTest, CurStr, CurNum, CurBad, CurEmpty, CurNeg}

\* String(historyId)
String(c) ==
    IF c.t = "absent" THEN <<"u", "n", "d", "e", "f", "i", "n", "e", "d">> ELSE c.s

\* str.startsWith(prefix)
StartsWith(str, prefix) ==
    /\ Len(str) >= Len(prefix)
    /\ SubSeq(str, 1, Len(prefix)) = prefix

\* String(notification.historyId).startsWith('test')
IsTestCursorNever(c) == FALSE
IsTestCursor(c) == StartsWith(String(c), <<"t", "e", "s", "t">>)

\* /^\d+$/.test(historyIdStr)
IsNumericPrefix(str) == Len(str) >= 1 /\ str[1] \in Digits
IsNumeric(str) == Len(str) >= 1 /\ \A i \in 1..Len(str) : str[i] \in Digits

\* The characters of a sequence joined into one string.
RECURSIVE Join(_)
Join(chars) == IF chars = <<>> THEN "" ELSE chars[1] \o Join(Tail(chars))

(***************************************************************************)
(* Inbound envelopes, by what request.json(), body.message?.data,          *)
(* the base64 decoding and JSON.parse make of them.                        *)
(***************************************************************************)
AccountId == "user@example.com"

Envelope(body, data, json, email, cursor) ==
    [body |-> body, data |-> data, json |-> json, emailAddress |-> email,
     historyId |-> cursor]

Envelopes ==
    \* request.json() throws / yields null / yields an object without data
    { Envelope(b, "absent", "none", None, CurAbsent) :
        b \in {"unparsable", "null", "object"} }
    \* data that does not decode to JSON, or decodes to the JSON value null
    \cup { Envelope("object", "present", j, None, CurAbsent) :
             j \in {"invalid", "null"} }
    \* data that decodes to a JSON object, either field present or not (a
    \* cursor that is a string of digits goes the way of a number in every
    \* branch, so one of the two is sent here)
    \cup { Envelope("object", "present", "object", e, c) :
             e \in {None, Some(AccountId)}, c \in Cursors \ {CurStr} }

(***************************************************************************)
(* The provider: raw messages, history pages and unread-message pages.     *)
(***************************************************************************)
MsgIds == {"m1", "m2", "m3"}

Header(name, value) == [name |-> name, value |-> value]

\* body.substring(0, 1000)
BodyLimit == 1000

\* n copies of x.
Repeat(x, n) == [i \in 1..n |-> x]

\* A message part, or payload.body: body is absent, or holds data or not.
Body(data) == Some([data |-> data])
Part(mimeType, body) == [mimeType |-> mimeType, body |-> body]

Payload(headers, body, parts) ==
    Some([headers |-> headers, body |-> body, parts |-> parts])

StockHeaders(id) ==
    Some(<< Header("Subject", "subject of " \o id),
            Header("FROM", "sender@example.com"),
            Header("to", AccountId),
            Header("Date", "date of " \o id) >>)

\* messages.get({id}).data for the stock messages: m1 has a flat body, m2 a
\* plain-text part after an HTML part, m3 no body.  Body data is base64, held
\* as the sequence of its groups, one group per character.
RawMessage(id) ==
    [id |-> Some(id),
     threadId |-> Some("thread-" \o id),
     payload |->
        Payload(StockHeaders(id),
                IF id = "m1" THEN Body(Some(<<"YQ", "Yg">>)) ELSE None,
                IF id = "m2"
                THEN Some(<< Part("text/html", Body(Some(<<"Yw">>))),
                             Part("text/plain", Body(Some(<<"Yg", "YQ">>))) >>)
                ELSE None),
     snippet |-> Some("snippet of " \o id)]

\* The raw messages the provider may hold (GmailMessage: every field but a
\* header's name and value and a part's mimeType is optional).
HeaderLists ==
    { None,
      Some(<<>>),
      Some(<< Header("SUBJECT", "s"), Header("from", "f") >>),
      Some(<< Header("Subject", ""), Header("subject", "late"),
              Header("X-Other", "x"), Header("TO", "t"),
              Header("date", "d") >>),
      Some(<< Header("X-Subject", "no"), Header("Date", "d1"),
              Header("DATE", "d2"), Header("From", "f"),
              Header("To", "t"), Header("subject", "s") >>) }

Bodies ==
    { None, Body(None), Body(Some(<<>>)), Body(Some(<<"Yw", "YQ">>)),
      Body(Some(Repeat("YQ", BodyLimit - 1) \o <<"Yg">>)),
      Body(Some(Repeat("YQ", BodyLimit - 1) \o <<"Yg", "Yw">>)) }

PartLists ==
    { None,
      Some(<<>>),
      Some(<< Part("text/html", Body(Some(<<"Yw">>))) >>),
      Some(<< Part("text/html", Body(Some(<<"Yw">>))),
              Part("text/plain", Body(None)),
              Part("text/plain", Body(Some(<<"Yg">>))) >>),
      Some(<< Part("text/plain", None),
              Part("text/plain", Body(Some(<<"Yg">>))) >>),
      Some(<< Part("TEXT/PLAIN", Body(Some(<<"Yw">>))),
              Part("text/plain",
                   Body(Some(Repeat("Yg", BodyLimit) \o <<"YQ", "YQ">>))),
              Part("text/plain", Body(Some(<<"YQ">>))) >>) }

RawMessages ==
    { [id |-> None, threadId |-> None, payload |-> None, snippet |-> None],
      [id |-> Some("m3"), threadId |-> Some("thread-m3"), payload |-> None,
       snippet |-> Some("snippet of m3")] }
    \cup { [id |-> f[1], threadId |-> f[2], payload |-> Payload(h, b, ps),
            snippet |-> f[3]] :
             f \in { <<None, None, None>>,
                     <<Some("m3"), Some("thread-m3"), Some("snippet of m3")>>,
                     <<Some(""), Some(""), Some("")>> },
             h \in HeaderLists, b \in Bodies, ps \in PartLists }

\* A history page: entries, each with or without messagesAdded, each added
\* message with or without an id.
Histories ==
    { <<>>,
      << None >>,
      << Some(<< Some("m1") >>) >>,
      << Some(<< Some("m1"), None >>), Some(<< Some("m2") >>) >> }

\* An unread-message page (maxResults: 1): empty, a message, a message
\* without an id.
UnreadPages == { <<>>, << Some("m3") >>, << None >> }

\* s.toLowerCase(), on the header names in use.
ToLowerCaseIdentity(s) == s
ToLowerCase(s) ==
    CASE s \in {"Subject", "SUBJECT", "subject"} -> "subject"
      [] s \in {"From", "FROM", "from"} -> "from"
      [] s \in {"To", "TO", "to"} -> "to"
      [] s \in {"Date", "DATE", "date"} -> "date"
      [] OTHER -> s

\* getHeader(name): the first header of that name, compared in lower case.
GetHeader(headers, name) ==
    LET hit == SelectSeq(headers,
                         LAMBDA h : ToLowerCase(h.name) = ToLowerCase(name))
    IN  IF hit = <<>> THEN "" ELSE hit[1].value

\* x || ''
OrEmpty(opt) == IF opt = None THEN "" ELSE opt[1]

\* Buffer.from(data, 'base64').toString('utf-8')
Base64Char(g) ==
    CASE g = "YQ" -> "a"
      [] g = "Yg" -> "b"
      [] g = "Yw" -> "c"
      [] OTHER -> "?"

Base64Decode(data) == [i \in 1..Len(data) |-> Base64Char(data[i])]

\* str.substring(0, n)
SubstringKeepsAll(str, n) == str
Substring(str, n) == SubSeq(str, 1, IF n < Len(str) THEN n ELSE Len(str))

\* Whether an optional string is truthy: there and not ''.
Truthy(optStr) == optStr # None /\ optStr[1] # <<>>

\* x.body?.data
BodyData(x) == IF x.body = None THEN None ELSE x.body[1].data

\* parts.find((p) => p.mimeType === 'text/plain')
FindLastTextPart(parts) ==
    LET hit == SelectSeq(parts, LAMBDA p : p.mimeType = "text/plain")
    IN  IF hit = <<>> THEN None ELSE Some(hit[Len(hit)])
FindTextPart(parts) ==
    LET hit == SelectSeq(parts, LAMBDA p : p.mimeType = "text/plain")
    IN  IF hit = <<>> THEN None ELSE Some(hit[1])

\* let body = ''; if (message.payload?.body?.data) ... else if
\* (message.payload?.parts) ...
ExtractBody(payload) ==
    IF payload = None THEN <<>>
    ELSE IF Truthy(BodyData(payload[1]))
         THEN Base64Decode(BodyData(payload[1])[1])
    ELSE IF payload[1].parts # None
         THEN LET textPart == FindTextPart(payload[1].parts[1]) IN
              IF textPart # None /\ Truthy(BodyData(textPart[1]))
              THEN Base64Decode(BodyData(textPart[1])[1])
              ELSE <<>>
    ELSE <<>>

\* message.payload?.headers || []
HeadersOf(message) ==
    IF message.payload = None \/ message.payload[1].headers = None THEN <<>>
    ELSE message.payload[1].headers[1]

ExtractEmailDetails(message) ==
    [id |-> OrEmpty(message.id),
     threadId |-> OrEmpty(message.threadId),
     subject |-> GetHeader(HeadersOf(message), "Subject"),
     from |-> GetHeader(HeadersOf(message), "From"),
     to |-> GetHeader(HeadersOf(message), "To"),
     date |-> GetHeader(HeadersOf(message), "Date"),
     snippet |-> OrEmpty(message.snippet),
     body |-> Substring(ExtractBody(message.payload), BodyLimit)]

\* { ...email, receivedAt: new Date().toISOString(), historyId }
StoredEmailUnstamped(email, t, cursor) ==
    [id |-> email.id, threadId |-> email.threadId, subject |-> email.subject,
     from |-> email.from, to |-> email.to, date |-> email.date,
     snippet |-> email.snippet, body |-> email.body, receivedAt |-> t,
     historyId |-> CurAbsent]
StoredEmail(email, t, cursor) ==
    [id |-> email.id, threadId |-> email.threadId, subject |-> email.subject,
     from |-> email.from, to |-> email.to, date |-> email.date,
     snippet |-> email.snippet, body |-> email.body, receivedAt |-> t,
     historyId |-> cursor]

\* 'This is a test notification from Pub/Sub. Real emails will show full
\* content.', as its characters
TestBody ==
    <<
       "T", "h", "i", "s", " ", "i", "s", " ", "a", " ", "t", "e", "s",
       "t", " ", "n", "o", "t", "i", "f", "i", "c", "a", "t", "i", "o",
       "n", " ", "f", "r", "o", "m", " ", "P", "u", "b", "/", "S", "u",
       "b", ".", " ", "R", "e", "a", "l", " ", "e", "m", "a", "i", "l",
       "s", " ", "w", "i", "l", "l", " ", "s", "h", "o", "w", " ", "f",
       "u", "l", "l", " ", "c", "o", "n", "t", "e", "n", "t", "."
    >>

\* The placeholder record of a test notification, built at time t ("" stands
\* for the undefined `to` of a notification without emailAddress).
TestEmail(notification, t) ==
    [id |-> "test-" \o ToString(t),
     threadId |-> "test",
     subject |-> "[Test] Pub/Sub Notification Test",
     from |-> "pubsub@test.com",
     to |-> OrEmpty(notification.emailAddress),
     date |-> ToString(t),
     snippet |-> "Test notification with history ID: "
                   \o Join(String(notification.historyId)),
     body |-> TestBody,
     receivedAt |-> t,
     historyId |-> notification.historyId]

\* for (record of history) for (added of record.messagesAdded): the ids of
\* the added messages in visiting order, those without an id skipped.
RECURSIVE Flatten(_)
Flatten(seqs) ==
    IF seqs = <<>> THEN <<>>
    ELSE (IF seqs[1] = None THEN <<>> ELSE seqs[1][1]) \o Flatten(Tail(seqs))

AddedIdsReversed(history) ==
    LET added == SelectSeq(Flatten(history), LAMBDA a : a # None)
    IN  [i \in 1..Len(added) |-> added[Len(added) + 1 - i][1]]
AddedIds(history) ==
    LET added == SelectSeq(Flatten(history), LAMBDA a : a # None)
    IN  [i \in 1..Len(added) |-> added[i][1]]


(***************************************************************************)
(* State.                                                                  *)
(***************************************************************************)
VARIABLES
    now,           \* the clock: Date.now(), and the backend's notion of time
    list,          \* Redis list gmail:emails, newest first
    byId,          \* Redis keys gmail:email:<id>: id -> [val, exp]
    lastReceived,  \* Redis key gmail:stats:lastReceived: None or <<[val, exp]>>
    post,          \* one webhook POST request per p \in Posts
    clr,           \* one clear() call
    faults,        \* provider / backend calls that have failed so far
    served,        \* requests answered and followed by another one
    setLog,        \* history: id -> the latest SET of its by-id key that no
                   \* DEL has removed since, as [rec, at]
    rd,            \* one call of the read surface: getEmails, getEmail,
                   \* getStats, or GET /api/emails
    mailbox,       \* the provider: None, or <<m>> when the unread message
                   \* it holds is m rather than the stock message
    testKey,       \* Redis key test:connection: None or <<[val, exp]>>
    memory,        \* the in-memory EmailStore: its emails array, newest
                   \* first, with the calls a caller of both stores has
                   \* made on it so far
    wire,          \* Pub/Sub: None, or <<data>> when the notification sent
                   \* next carries this message.data, a base64 text
    log            \* history: the addEmail calls that have returned, in
                   \* order, as [rec, ok, step, cursor], step being the
                   \* command that failed ("none" if ok) and cursor the
                   \* cursor of the notification whose request made the call

hist == <<setLog, log>>
vars == <<now, list, byId, lastReceived, post, clr, faults, served, hist, rd,
          mailbox, testKey, wire, memory>>
store == <<list, byId, lastReceived>>

\* NextResponse.json({ status: 'ok' }, { status: 200 }), after the handler body
AckResponse == [status |-> 200, body |-> "ok"]
\* the same, in the handler's outer catch
WebhookErrorResponse500 == [status |-> 500, body |-> "error"]
WebhookErrorResponse == [status |-> 200, body |-> "ok"]

\* A map without keys.
EmptyMap == [k \in {} |-> None]
MapPutOneKey(m, k, v) == [x \in DOMAIN m \cup {"email"} |-> v]
MapPut(m, k, v) == [x \in DOMAIN m \cup {k} |-> IF x = k THEN v ELSE m[x]]
MapDel(m, k) == [x \in DOMAIN m \ {k} |-> m[x]]

(***************************************************************************)
(* The in-memory EmailStore (lib/email-store.ts): one array, newest first. *)
(***************************************************************************)
\* Array.prototype.slice(begin, end): negative indexes count from the end,
\* out-of-range indexes are clamped, end is excluded.
Slice(arr, begin, end) ==
    LET n == Len(arr)
        b == IF begin < 0 THEN (IF n + begin < 0 THEN 0 ELSE n + begin)
                          ELSE (IF begin > n THEN n ELSE begin)
        e == IF end < 0 THEN (IF n + end < 0 THEN 0 ELSE n + end)
                        ELSE (IF end > n THEN n ELSE end)
    IN  IF b < e THEN SubSeq(arr, b + 1, e) ELSE <<>>

\* private maxEmails = 100, the same figure as the backend store's
MemoryMaxEmails == maxEmails

\* this.emails.unshift(email); if (this.emails.length > this.maxEmails)
\*   this.emails = this.emails.slice(0, this.maxEmails)
MemoryAddEmailNoCap(emails, email) == <<email>> \o emails
MemoryAddEmail(emails, email) ==
    LET unshifted == <<email>> \o emails
    IN  IF Len(unshifted) > MemoryMaxEmails
        THEN Slice(unshifted, 0, MemoryMaxEmails) ELSE unshifted

\* return this.emails.slice(0, limit)
MemoryGetEmails(emails, limit) == Slice(emails, 0, limit)

\* return this.emails.find(e => e.id === id)
MemoryGetEmail(emails, id) ==
    LET hit == SelectSeq(emails, LAMBDA e : e.id = id)
    IN  IF hit = <<>> THEN Undefined ELSE Some(hit[1])

\* getStats()
MemoryGetStats(emails) ==
    [totalEmails |-> Len(emails),
     oldestEmail |-> IF emails = <<>> THEN Undefined
                     ELSE Some(emails[Len(emails)].date),
     newestEmail |-> IF emails = <<>> THEN Undefined ELSE Some(emails[1].date),
     lastReceived |-> IF emails = <<>> THEN Undefined
                      ELSE Some(emails[1].receivedAt)]

\* this.emails = []
MemoryClear(emails) == <<>>

\* new EmailStore(), with no call made on it yet: adds counts the addEmail
\* calls it has received, cleared says whether clear() was called.
NewEmailStore == [emails |-> <<>>, adds |-> 0, cleared |-> FALSE]

IdlePost ==
    [pc |-> "idle", cursor |-> CurAbsent, pending |-> <<>>, emails |-> <<>>,
     queue |-> <<>>, rec |-> None, resp |-> None,
     \* history of the request, for the properties
     decodeFails |-> FALSE, path |-> "none", calls |-> <<>>,
     provFailed |-> FALSE, fetched |-> <<>>, nAdd |-> 0, addFailed |-> FALSE,
     \* what history.list and messages.list answered, if they did
     history |-> None, page |-> None]

IdleClear == [pc |-> "idle", emails |-> <<>>, i |-> 1, result |-> None,
              deleted |-> {}]

IdleRead ==
    [op |-> "none", pc |-> "idle", limit |-> 0, id |-> "",
     \* GET: the limit parameter of the URL, if it has one
     param |-> None,
     \* getEmails: its answer, once it has one
     emails |-> None,
     \* getStats: where it is, what llen, get and the first lrange answered,
     \* and its answer, once it has one
     spc |-> "idle", llen |-> None, last |-> None, newest |-> None,
     stats |-> None,
     \* the self-test: what testConnection answered, once it has
     connected |-> None,
     \* what the call returned to its caller
     result |-> None,
     \* history of the call, for the properties: the backend calls that
     \* failed, the insert / clear activity seen when it began, whether
     \* every backend call of it ran with no insert or clear in flight or
     \* finished since, and when the last-received key was read
     failed |-> {}, epoch |-> <<0, "idle">>, quiet |-> TRUE, getAt |-> 0]

Init ==
    /\ now = 0
    /\ list = <<>>
    /\ byId = EmptyMap
    /\ lastReceived = None
    /\ post = [p \in Posts |-> IdlePost]
    /\ clr = IdleClear
    /\ rd = IdleRead
    /\ mailbox = None
    /\ testKey = None
    /\ wire = None
    /\ memory = NewEmailStore
    /\ faults = 0
    /\ served = 0
    /\ setLog = EmptyMap
    /\ log = <<>>

\* A provider or backend call may fail while the fault budget lasts.
MayFail == faults < MaxFaults
Fail == faults' = faults + 1
NoFail == faults' = faults

(***************************************************************************)
(* Store reads (lib/email-store-kv.ts), without a backend failure.         *)
(***************************************************************************)
ByIdKey(id) == IF id \in DOMAIN byId THEN Some(byId[id]) ELSE None

getEmailsOf(lst, limit) == LRange(lst, 0, limit - 1)
getEmails(limit) == getEmailsOf(list, limit)

getEmailFromList(id) ==
    LET hit == SelectSeq(list, LAMBDA e : e.id = id)
    IN  IF hit = <<>> THEN None ELSE Some(hit[1])
getEmail(id) == Get(ByIdKey(id), now)

\* emails?.[0]?.date
FirstDate(emails) == IF emails = <<>> THEN Undefined ELSE Some(emails[1].date)

getStatsOf(lst, lastRecv, t) ==
    [totalEmails |-> LLen(lst),
     newestEmail |-> FirstDate(LRange(lst, 0, 0)),
     oldestEmail |-> FirstDate(LRange(lst, -1, -1)),
     lastReceived |-> Get(lastRecv, t)]
getStats == getStatsOf(list, lastReceived, now)


(***************************************************************************)
(* POST /api/gmail/webhook                                                 *)
(***************************************************************************)
SetPost(p, r) == post' = [post EXCEPT ![p] = r]

\* return NextResponse.json(...): the request is over, its locals are gone.
Respond(r, response) ==
    [r EXCEPT !.pc = "done", !.resp = Some(response), !.pending = <<>>,
              !.emails = <<>>, !.queue = <<>>, !.rec = None]

\* Falling out of the handler body to the acknowledgement.
Ack(r) == Respond(r, AckResponse)

\* for (const email of newEmails): the next record is stamped at time t and
\* addEmail is called with it; after the last one the handler acknowledges.
InsertNext(r, emails, t) ==
    IF emails = <<>> THEN Ack(r)
    ELSE [r EXCEPT !.pc = "lpush",
                   !.rec = Some(StoredEmail(emails[1], t, r.cursor)),
                   !.queue = Tail(emails),
                   !.nAdd = @ + 1,
                   !.pending = <<>>, !.emails = <<>>]

\* fetchNewEmails returned emails: if (newEmails.length > 0) the loop, else
\* the acknowledgement.
FetchedStoresAnyway(r, emails, t) ==
    LET found == IF emails = <<>>
                 THEN <<ExtractEmailDetails(RawMessage("m3"))>> ELSE emails
    IN  InsertNext([r EXCEPT !.fetched = [i \in 1..Len(found) |-> found[i].id]],
                   found, t)
Fetched(r, emails, t) ==
    InsertNext([r EXCEPT !.fetched = [i \in 1..Len(emails) |-> emails[i].id]],
               emails, t)

\* Whether decoding the envelope into {accountId, cursor} fails: there is no
\* data, it is not JSON, or a required field is absent.
DecodeFails(env) ==
    \/ env.body # "object"
    \/ env.data = "absent"
    \/ env.json # "object"
    \/ env.emailAddress = None
    \/ env.historyId = CurAbsent

\* The handler from its entry to its first provider or backend call.
Received(r, env, t) ==
    \* request.json() throws, or body is null and body.subscription throws
    IF env.body \in {"unparsable", "null"} THEN Respond(r, WebhookErrorResponse)
    \* if (body.message?.data) is false
    ELSE IF env.data = "absent" THEN Ack(r)
    \* JSON.parse throws, or notification is null and reading a field throws
    ELSE IF env.json \in {"invalid", "null"} THEN Ack(r)
    ELSE LET r1 == [r EXCEPT !.cursor = env.historyId] IN
         IF IsTestCursor(env.historyId)
         THEN [r1 EXCEPT !.pc = "lpush", !.path = "test", !.nAdd = 1,
                         !.rec = Some(TestEmail(env, t))]
         \* fetchNewEmails: the cursor is validated before any call
         ELSE IF ~IsNumeric(String(env.historyId))
         THEN Fetched([r1 EXCEPT !.path = "invalid"], <<>>, t)
         ELSE [r1 EXCEPT !.pc = "historyList"]

Receive(p, envs) ==
    /\ post[p].pc = "idle"
    /\ \E env \in envs :
          SetPost(p, Received([post[p] EXCEPT !.decodeFails = DecodeFails(env)],
                              env, now))
    /\ UNCHANGED <<now, mailbox, testKey, wire, memory, rd, store, clr, faults, served, hist>>

Called(r, name) == [r EXCEPT !.calls = Append(@, name)]

\* catch (error) { return emails } in fetchNewEmails
FetchCaught(r, t) == Fetched([r EXCEPT !.provFailed = TRUE], r.emails, t)

\* What messages.get answers for an id.
UnreadId == "m3"
ProviderMessage(id) ==
    IF mailbox # None /\ id = UnreadId THEN mailbox[1] ELSE RawMessage(id)

\* if (!history.data.history || history.data.history.length === 0)
NoAddedMessages(h) == AddedIds(h) = <<>>
NoHistory(h) == Len(h) = 0

\* await gmail.users.history.list(...)
HistoryList(p) ==
    /\ post[p].pc = "historyList"
    /\ LET r == Called(post[p], "history.list") IN
       \/ /\ MayFail /\ Fail
          /\ SetPost(p, FetchCaught(r, now))
       \/ /\ NoFail
          /\ \E h \in Histories :
               IF NoHistory(h)
               THEN SetPost(p, [r EXCEPT !.pc = "messagesList",
                                         !.path = "fallback",
                                         !.history = Some(h)])
               ELSE LET ids == AddedIds(h)
                        r1 == [r EXCEPT !.path = "history",
                                        !.history = Some(h)] IN
                    IF ids = <<>> THEN SetPost(p, Fetched(r1, <<>>, now))
                    ELSE SetPost(p, [r1 EXCEPT !.pc = "historyGet",
                                               !.pending = ids])
    /\ UNCHANGED <<now, mailbox, testKey, wire, memory, rd, store, clr, served, hist>>

\* await gmail.users.messages.list({maxResults: 1, q: 'is:unread'})
MessagesList(p) ==
    /\ post[p].pc = "messagesList"
    /\ LET r == Called(post[p], "messages.list") IN
       \/ /\ MayFail /\ Fail
          /\ SetPost(p, FetchCaught(r, now))
       \/ /\ NoFail
          /\ \E page \in UnreadPages :
               LET r1 == [r EXCEPT !.page = Some(page)] IN
               IF Len(page) > 0 /\ page[1] # None
               THEN SetPost(p, [r1 EXCEPT !.pc = "messagesGet",
                                          !.pending = <<page[1][1]>>])
               ELSE SetPost(p, Fetched(r1, <<>>, now))
    /\ UNCHANGED <<now, mailbox, testKey, wire, memory, rd, store, clr, served, hist>>

\* await gmail.users.messages.get({id: messageId}), on the fallback path
MessagesGetTwice(p) ==
    /\ post[p].pc = "messagesGet"
    /\ LET r == Called(post[p], "messages.get") IN
       \/ /\ MayFail /\ Fail
          /\ SetPost(p, FetchCaught(r, now))
       \/ /\ NoFail
          /\ LET e == ExtractEmailDetails(ProviderMessage(r.pending[1])) IN
             SetPost(p, Fetched(r, r.emails \o <<e, e>>, now))
    /\ UNCHANGED <<now, mailbox, testKey, wire, memory, rd, store, clr, served, hist>>
MessagesGet(p) ==
    /\ post[p].pc = "messagesGet"
    /\ LET r == Called(post[p], "messages.get") IN
       \/ /\ MayFail /\ Fail
          /\ SetPost(p, FetchCaught(r, now))
       \/ /\ NoFail
          /\ SetPost(p, Fetched(r,
                 Append(r.emails, ExtractEmailDetails(ProviderMessage(r.pending[1]))),
                 now))
    /\ UNCHANGED <<now, mailbox, testKey, wire, memory, rd, store, clr, served, hist>>

\* await gmail.users.messages.get({id: messageId}), in the history loop
HistoryGet(p) ==
    /\ post[p].pc = "historyGet"
    /\ LET r == Called(post[p], "messages.get") IN
       \/ /\ MayFail /\ Fail
          /\ SetPost(p, FetchCaught(r, now))
       \/ /\ NoFail
          /\ LET emails == Append(r.emails,
                                  ExtractEmailDetails(ProviderMessage(r.pending[1])))
                 rest == Tail(r.pending) IN
             IF rest = <<>> THEN SetPost(p, Fetched(r, emails, now))
             ELSE SetPost(p, [r EXCEPT !.emails = emails, !.pending = rest])
    /\ UNCHANGED <<now, mailbox, testKey, wire, memory, rd, store, clr, served, hist>>


(***************************************************************************)
(* emailStore.addEmail(email), called from the webhook: four backend       *)
(* commands in a row, any failure caught and answered with false.          *)
(***************************************************************************)
\* catch (error) { return false }: back in the webhook's loop.
AddEmailFailedAborts(r, t) == Ack([r EXCEPT !.addFailed = TRUE])
AddEmailFailedRetries(r, t) == [r EXCEPT !.pc = "lpush", !.addFailed = TRUE]
AddEmailFailed(r, t) == InsertNext([r EXCEPT !.addFailed = TRUE], r.queue, t)

\* return true
AddEmailDone(r, t) == InsertNext(r, r.queue, t)

\* await redis.lpush(this.emailsKey, email)
AddLPushWritesKey(p) ==
    /\ post[p].pc = "lpush"
    /\ \/ /\ MayFail /\ Fail
          /\ SetPost(p, AddEmailFailed(post[p], now))
          /\ log' = Append(log, [rec |-> post[p].rec[1], ok |-> FALSE,
                                  step |-> "lpush",
                                  cursor |-> post[p].cursor])
          /\ byId' = MapPut(byId, post[p].rec[1].id,
                            SetEx(post[p].rec[1], TTL, now))
          /\ UNCHANGED list
       \/ /\ NoFail
          /\ list' = LPush(list, post[p].rec[1])
          /\ SetPost(p, [post[p] EXCEPT !.pc = "ltrim"])
          /\ UNCHANGED <<log, byId>>
    /\ UNCHANGED <<now, mailbox, testKey, wire, memory, rd, lastReceived, clr, served, setLog>>
AddLPush(p) ==
    /\ post[p].pc = "lpush"
    /\ \/ /\ MayFail /\ Fail
          /\ SetPost(p, AddEmailFailed(post[p], now))
          /\ log' = Append(log, [rec |-> post[p].rec[1], ok |-> FALSE,
                                  step |-> "lpush",
                                  cursor |-> post[p].cursor])
          /\ UNCHANGED list
       \/ /\ NoFail
          /\ list' = LPush(list, post[p].rec[1])
          /\ SetPost(p, [post[p] EXCEPT !.pc = "ltrim"])
          /\ UNCHANGED log
    /\ UNCHANGED <<now, mailbox, testKey, wire, memory, rd, byId, lastReceived, clr, served, setLog>>

\* await redis.ltrim(this.emailsKey, 0, this.maxEmails - 1)
AddLTrim(p) ==
    /\ post[p].pc = "ltrim"
    /\ \/ /\ MayFail /\ Fail
          /\ SetPost(p, AddEmailFailed(post[p], now))
          /\ log' = Append(log, [rec |-> post[p].rec[1], ok |-> FALSE,
                                  step |-> "ltrim",
                                  cursor |-> post[p].cursor])
          /\ UNCHANGED list
       \/ /\ NoFail
          /\ list' = LTrim(list, 0, maxEmails - 1)
          /\ SetPost(p, [post[p] EXCEPT !.pc = "set"])
          /\ UNCHANGED log
    /\ UNCHANGED <<now, mailbox, testKey, wire, memory, rd, byId, lastReceived, clr, served, setLog>>

\* await redis.set(`gmail:email:${email.id}`, email, { ex: 30 days })
AddSetRollsBack(p) ==
    /\ post[p].pc = "set"
    /\ \/ /\ MayFail /\ Fail
          /\ SetPost(p, AddEmailFailed(post[p], now))
          /\ log' = Append(log, [rec |-> post[p].rec[1], ok |-> FALSE,
                                  step |-> "set",
                                  cursor |-> post[p].cursor])
          /\ list' = Tail(list)
          /\ UNCHANGED <<byId, setLog>>
       \/ /\ NoFail
          /\ byId' = MapPut(byId, post[p].rec[1].id,
                            SetEx(post[p].rec[1], TTL, now))
          /\ setLog' = MapPut(setLog, post[p].rec[1].id,
                              [rec |-> post[p].rec[1], at |-> now])
          /\ SetPost(p, [post[p] EXCEPT !.pc = "updateStats"])
          /\ UNCHANGED <<log, list>>
    /\ UNCHANGED <<now, mailbox, testKey, wire, memory, rd, lastReceived, clr, served>>
AddSet(p) ==
    /\ post[p].pc = "set"
    /\ \/ /\ MayFail /\ Fail
          /\ SetPost(p, AddEmailFailed(post[p], now))
          /\ log' = Append(log, [rec |-> post[p].rec[1], ok |-> FALSE,
                                  step |-> "set",
                                  cursor |-> post[p].cursor])
          /\ UNCHANGED <<byId, setLog>>
       \/ /\ NoFail
          /\ byId' = MapPut(byId, post[p].rec[1].id,
                            SetEx(post[p].rec[1], TTL, now))
          /\ setLog' = MapPut(setLog, post[p].rec[1].id,
                              [rec |-> post[p].rec[1], at |-> now])
          /\ SetPost(p, [post[p] EXCEPT !.pc = "updateStats"])
          /\ UNCHANGED log
    /\ UNCHANGED <<now, mailbox, testKey, wire, memory, rd, list, lastReceived, clr, served>>

\* await this.updateStats(): redis.set('gmail:stats:lastReceived', now, ...)
AddUpdateStats(p) ==
    /\ post[p].pc = "updateStats"
    /\ \/ /\ MayFail /\ Fail
          /\ SetPost(p, AddEmailFailed(post[p], now))
          /\ log' = Append(log, [rec |-> post[p].rec[1], ok |-> FALSE,
                                  step |-> "updateStats",
                                  cursor |-> post[p].cursor])
          /\ UNCHANGED lastReceived
       \/ /\ NoFail
          /\ lastReceived' = Some(SetEx(now, TTL, now))
          /\ log' = Append(log, [rec |-> post[p].rec[1], ok |-> TRUE,
                                  step |-> "none",
                                  cursor |-> post[p].cursor])
          /\ SetPost(p, AddEmailDone(post[p], now))
    /\ UNCHANGED <<now, mailbox, testKey, wire, memory, rd, list, byId, clr, served, setLog>>

\* The response has been sent; the next request arrives at the same handler.
NextRequest(p) ==
    /\ post[p].pc = "done"
    /\ served < MaxRequests
    /\ served' = served + 1
    /\ SetPost(p, IdlePost)
    /\ UNCHANGED <<now, mailbox, testKey, wire, memory, rd, store, clr, faults, hist>>

PostStep(p, envs) ==
    \/ Receive(p, envs)
    \/ HistoryList(p)
    \/ MessagesList(p)
    \/ MessagesGet(p)
    \/ HistoryGet(p)
    \/ AddLPush(p)
    \/ AddLTrim(p)
    \/ AddSet(p)
    \/ AddUpdateStats(p)

(***************************************************************************)
(* emailStore.clear(): read the list, delete the by-id key of every entry  *)
(* read (a pipeline: one request, its commands not atomic), delete the     *)
(* list, delete the stats key.  Any failure is caught and answered with    *)
(* false.                                                                  *)
(***************************************************************************)
SetClear(c) == clr' = c

ClearFailed(c) == [c EXCEPT !.pc = "done", !.result = Some(FALSE), !.emails = <<>>,
                            !.i = 1]

\* const emails = await redis.lrange(this.emailsKey, 0, -1)
ClearRead ==
    /\ clr.pc = "idle"
    /\ \/ /\ MayFail /\ Fail
          /\ SetClear(ClearFailed(clr))
       \/ /\ NoFail
          /\ LET emails == LRange(list, 0, -1) IN
             SetClear([clr EXCEPT
                 !.pc = IF Len(emails) > 0 THEN "pipeline" ELSE "delList",
                 !.emails = emails])
    /\ UNCHANGED <<now, mailbox, testKey, wire, memory, rd, store, post, served, hist>>

\* await pipeline.exec(): the request fails as a whole, or its DELs run in
\* order, other commands possibly in between.
ClearPipelineDel ==
    /\ clr.pc = "pipeline"
    /\ \/ /\ clr.i = 1 /\ MayFail /\ Fail
          /\ SetClear(ClearFailed(clr))
          /\ UNCHANGED <<byId, setLog>>
       \/ /\ NoFail
          /\ LET id == clr.emails[clr.i].id
                 last == clr.i = Len(clr.emails) IN
             /\ byId' = MapDel(byId, id)
             /\ setLog' = MapDel(setLog, id)
             /\ SetClear([clr EXCEPT
                   !.pc = IF last THEN "delList" ELSE "pipeline",
                   !.i = IF last THEN 1 ELSE @ + 1,
                   !.emails = IF last THEN <<>> ELSE @,
                   !.deleted = IF getEmail(id) # None THEN @ \cup {id} ELSE @])
    /\ UNCHANGED <<now, mailbox, testKey, wire, memory, rd, list, lastReceived, post, served, log>>

\* await redis.del(this.emailsKey)
ClearDelListSkipped ==
    /\ clr.pc = "delList"
    /\ \/ /\ MayFail /\ Fail
          /\ SetClear(ClearFailed(clr))
       \/ /\ NoFail
          /\ SetClear([clr EXCEPT !.pc = "delStats"])
    /\ UNCHANGED <<now, mailbox, testKey, wire, memory, rd, list, byId, lastReceived, post, served, hist>>
ClearDelList ==
    /\ clr.pc = "delList"
    /\ \/ /\ MayFail /\ Fail
          /\ SetClear(ClearFailed(clr))
          /\ UNCHANGED list
       \/ /\ NoFail
          /\ list' = <<>>
          /\ SetClear([clr EXCEPT !.pc = "delStats"])
    /\ UNCHANGED <<now, mailbox, testKey, wire, memory, rd, byId, lastReceived, post, served, hist>>

\* await redis.del('gmail:stats:lastReceived'); return true
ClearDelStatsSkipped ==
    /\ clr.pc = "delStats"
    /\ \/ /\ MayFail /\ Fail
          /\ SetClear(ClearFailed(clr))
       \/ /\ NoFail
          /\ SetClear([clr EXCEPT !.pc = "done", !.result = Some(TRUE)])
    /\ UNCHANGED <<now, mailbox, testKey, wire, memory, rd, list, byId, lastReceived, post, served, hist>>
ClearDelStats ==
    /\ clr.pc = "delStats"
    /\ \/ /\ MayFail /\ Fail
          /\ SetClear(ClearFailed(clr))
          /\ UNCHANGED lastReceived
       \/ /\ NoFail
          /\ lastReceived' = None
          /\ SetClear([clr EXCEPT !.pc = "done", !.result = Some(TRUE)])
    /\ UNCHANGED <<now, mailbox, testKey, wire, memory, rd, list, byId, post, served, hist>>

\* DELETE /api/emails: const success = await emailStore.clear(); the answer
\* carries it.
EmailsDeleteResponse(success) == [success |-> success]

\* DELETE /api/cleanup: await emailStore.clear(); the answer says true
\* whatever clear() returned.
CleanupDeleteResponse(success) == [success |-> TRUE]

ClearStep == ClearRead \/ ClearPipelineDel \/ ClearDelList \/ ClearDelStats

\* Time passes.
Tick ==
    /\ now < MaxTime
    /\ now' = now + 1
    /\ UNCHANGED <<store, post, clr, faults, served, hist, rd, mailbox, testKey, wire, memory>>

\* Valid notifications: the concurrent runs leave out the envelopes that are
\* dropped before any provider or backend call.
ValidEnvelopes ==
    { Envelope("object", "present", "object", Some(AccountId), c) :
        c \in {CurTest, CurStr, CurNum} }

(***************************************************************************)
(* NumPosts requests that arrive together, interleaved at every await.     *)
(***************************************************************************)
ConcNext == \E p \in Posts : PostStep(p, ValidEnvelopes)

ConcSpec == Init /\ [][ConcNext]_vars

(***************************************************************************)
(* The same requests, where every provider call and every backend call     *)
(* that has been made returns or fails in the end.                         *)
(***************************************************************************)
CallReturns(p) ==
    \/ HistoryList(p)
    \/ MessagesList(p)
    \/ MessagesGet(p)
    \/ HistoryGet(p)
    \/ AddLPush(p)
    \/ AddLTrim(p)
    \/ AddSet(p)
    \/ AddUpdateStats(p)

LiveSpec ==
    Init /\ [][ConcNext]_vars /\ \A p \in Posts : WF_vars(CallReturns(p))

(***************************************************************************)
(* One request handled alone, then NumPosts requests that arrive together: *)
(* the concurrent inserts meet a store that may hold records.              *)
(***************************************************************************)
BurstNext ==
    \/ served = 0 /\ PostStep(1, ValidEnvelopes)
    \/ NextRequest(1)
    \/ served > 0 /\ \E p \in Posts : PostStep(p, ValidEnvelopes)

BurstSpec == Init /\ [][BurstNext]_vars

(***************************************************************************)
(* Requests that arrive together and one clear() that runs beside them,    *)
(* interleaved at every await.                                             *)
(***************************************************************************)
MixNext ==
    \/ \E p \in Posts : PostStep(p, ValidEnvelopes)
    \/ ClearStep

MixSpec == Init /\ [][MixNext]_vars

(***************************************************************************)
(* The same requests with the clock running between their steps.           *)
(***************************************************************************)
RaceNext ==
    \/ \E p \in Posts : PostStep(p, ValidEnvelopes)
    \/ Tick

RaceSpec == Init /\ [][RaceNext]_vars

(***************************************************************************)
(* Requests handled one after another by one handler, 1 + MaxRequests of   *)
(* them, with every envelope; clear() runs between two of them.            *)
(***************************************************************************)
Quiet(p) == post[p].pc \in {"idle", "done"}
ClearQuiet == clr.pc \in {"idle", "done"}

SeqNext ==
    \/ ClearQuiet /\ PostStep(1, Envelopes)
    \/ ClearQuiet /\ NextRequest(1)
    \/ Quiet(1) /\ ClearStep
    \/ Tick

SeqSpec == Init /\ [][SeqNext]_vars

(***************************************************************************)
(* Both stores under one caller: every addEmail and clear call the backend *)
(* store has finished is made on the in-memory store as well, with the     *)
(* same argument, before the next call begins.                             *)
(***************************************************************************)
\* The in-memory store has received every call the backend store finished.
BothCalled ==
    /\ memory.adds = Len(log)
    /\ memory.cleared <=> clr.pc = "done"

\* emailStore.addEmail(email) on the in-memory store
MemoryAdd ==
    /\ memory.adds < Len(log)
    /\ memory' = [memory EXCEPT
         !.emails = MemoryAddEmail(@, log[memory.adds + 1].rec),
         !.adds = @ + 1]
    /\ UNCHANGED <<now, store, post, clr, faults, served, hist, rd, mailbox,
                   testKey, wire>>

\* emailStore.clear() on the in-memory store
MemoryCleared ==
    /\ memory.adds = Len(log)
    /\ ~memory.cleared /\ clr.pc = "done"
    /\ memory' = [memory EXCEPT !.emails = MemoryClear(@), !.cleared = TRUE]
    /\ UNCHANGED <<now, store, post, clr, faults, served, hist, rd, mailbox,
                   testKey, wire>>

BothNext ==
    \/ BothCalled /\ ClearQuiet /\ PostStep(1, ValidEnvelopes)
    \/ BothCalled /\ ClearQuiet /\ NextRequest(1)
    \/ BothCalled /\ Quiet(1) /\ ClearStep
    \/ MemoryAdd
    \/ MemoryCleared
    \/ Tick

BothSpec == Init /\ [][BothNext]_vars

(***************************************************************************)
(* The read surface: emailStore.getEmails / getEmail / getStats            *)
(* (lib/email-store-kv.ts) and GET /api/emails, one call of one of them,   *)
(* one action per backend command.  Each store method catches the failure  *)
(* of its backend calls and answers with a default.                        *)
(***************************************************************************)
\* The limits a caller passes to list: 0, up to the cap, above the cap.
Limits == 0..(maxEmails + 1)

\* catch (error) { return [] } in getEmails
GetEmailsCaught == <<>>

\* catch (error) { return null } in getEmail
GetEmailCaught == None

\* catch (error) { return {totalEmails: 0, newestEmail: null, ...} } in getStats
GetStatsCaughtUndefined ==
    [totalEmails |-> 0, newestEmail |-> Undefined, oldestEmail |-> Undefined,
     lastReceived |-> None]
GetStatsCaught ==
    [totalEmails |-> 0, newestEmail |-> None, oldestEmail |-> None,
     lastReceived |-> None]

\* JSON.stringify, on a stats object: a property whose value is undefined is
\* left out.
ToJson(stats) ==
    [k \in {x \in DOMAIN stats :
              x \in {"newestEmail", "oldestEmail"} => stats[x] # Undefined}
       |-> stats[k]]

\* GET /api/emails: NextResponse.json({emails, stats, timestamp})
GetResponse(emails, stats, t) ==
    [status |-> 200, emails |-> emails, stats |-> ToJson(stats),
     error |-> None, timestamp |-> t]

\* GET /api/emails: the response of the handler's catch, taken only when an
\* awaited store method rejects.
GetErrorResponse(t) ==
    [status |-> 500, emails |-> <<>>, stats |-> ToJson(GetStatsCaught),
     error |-> Some("Failed to fetch emails"), timestamp |-> t]

\* The default of GET's limit, '50' in the code: below the cap, as 50 is
\* below 100.
DefaultLimit == 1

\* The limit parameters of a GET: none, an empty one, the numbers up to one
\* above the cap.
LimitParams ==
    {None, Some(<<>>)} \cup {Some(<<ToString(n)>>) : n \in 0..(maxEmails + 1)}

\* parseInt(str), on a string of decimal digits
RECURSIVE ParseInt(_)
ParseInt(str) ==
    IF str = <<>> THEN 0
    ELSE 10 * ParseInt(SubSeq(str, 1, Len(str) - 1))
           + (CHOOSE n \in 0..9 : ToString(n) = str[Len(str)])

\* parseInt(searchParams.get('limit') || '50')
LimitOfIgnored(param) == maxEmails
LimitOf(param) ==
    ParseInt(IF param # None /\ param[1] # <<>> THEN param[1]
             ELSE <<ToString(DefaultLimit)>>)

\* getEmails(100) in the cleanup report: the whole list, 100 being the cap.
CleanupLimit == maxEmails

\* getEmails(5) in the self-test
SelfTestLimit == 5

\* { ex: 10 } on the self-test's key, in clock ticks
TestTTL == 1

\* email.id.startsWith('test-') || email.from.includes('test@') ||
\* email.subject.includes('[Test]'), on the records in use
IsTestEmail(email) ==
    \/ email.id \in {"test-" \o ToString(t) : t \in 0..MaxTime}
    \/ email.subject = "[Test] Pub/Sub Notification Test"

\* POST /api/cleanup: the report
CleanupReport(emails) ==
    LET tests == SelectSeq(emails, IsTestEmail) IN
    [success |-> TRUE, totalEmails |-> Len(emails),
     testEmails |-> Len(tests), realEmails |-> Len(emails) - Len(tests)]

\* GET /api/test-redis: the report
SelfTestReport(connected, stats, emails) ==
    [success |-> TRUE, connected |-> connected, stats |-> ToJson(stats),
     recentEmails |-> Len(emails), emailsList |-> emails]

\* GET /api/gmail/webhook: the health report
HealthReport == [status |-> "healthy", endpoint |-> "/api/gmail/webhook"]

\* The insert and clear calls that have returned so far.
Epoch == <<Len(log), clr.pc>>

WritersQuiet == (\A p \in Posts : Quiet(p)) /\ ClearQuiet

SetRead(r) == rd' = r

\* A backend command of the call runs now.
Observe(r) == [r EXCEPT !.quiet = @ /\ WritersQuiet /\ Epoch = r.epoch]

\* The call returns once its store methods have answered.
Returned(r, t) ==
    CASE r.op = "getEmails" /\ r.emails # None -> [r EXCEPT !.pc = "done"]
      [] r.op = "getStats" /\ r.stats # None -> [r EXCEPT !.pc = "done"]
      [] r.op = "GET" /\ r.emails # None /\ r.stats # None ->
            [r EXCEPT !.pc = "done",
                      !.result = Some(GetResponse(r.emails[1], r.stats[1], t))]
      [] r.op = "cleanup" /\ r.emails # None ->
            [r EXCEPT !.pc = "done",
                      !.result = Some(CleanupReport(r.emails[1]))]
      [] r.op = "selftest" /\ r.stats # None /\ r.emails # None ->
            [r EXCEPT !.pc = "done",
                      !.result = Some(SelfTestReport(r.connected[1],
                                                     r.stats[1], r.emails[1]))]
      [] OTHER -> r

\* The call begins: getEmails(limit), getEmail(id), getStats(), GET with
\* ?limit=, which starts getEmails(limit) and getStats() together, the
\* cleanup report, which calls getEmails(100), or the self-test, which calls
\* testConnection(), getStats() and getEmails(5) one after the other.
ReadStart ==
    /\ rd.pc = "idle"
    /\ \E op \in {"getEmails", "getEmail", "getStats", "GET", "cleanup",
                  "selftest"} :
       \E param \in (IF op = "GET" THEN LimitParams ELSE {None}) :
       \E limit \in (CASE op = "getEmails" -> Limits
                       [] op = "GET" -> {LimitOf(param)}
                       [] op = "cleanup" -> {CleanupLimit}
                       [] op = "selftest" -> {SelfTestLimit}
                       [] OTHER -> {0}) :
       \E id \in (IF op = "getEmail" THEN MsgIds ELSE {""}) :
          SetRead([rd EXCEPT !.op = op,
                             !.pc = IF op = "selftest" THEN "testSet"
                                    ELSE "running",
                             !.limit = limit, !.param = param,
                             !.id = id, !.epoch = Epoch,
                             !.quiet = WritersQuiet,
                             !.spc = IF op \in {"getStats", "GET", "selftest"}
                                     THEN "counts" ELSE "idle"])
    /\ UNCHANGED <<now, mailbox, testKey, wire, memory, store, post, clr, faults, served, hist>>

\* getEmails: await redis.lrange(this.emailsKey, 0, limit - 1)
GetEmailsCall ==
    /\ rd.pc = "running" /\ rd.emails = None
    /\ \/ rd.op \in {"getEmails", "GET", "cleanup"}
       \/ rd.op = "selftest" /\ rd.stats # None
    /\ LET r == Observe(rd) IN
       \/ /\ MayFail /\ Fail
          /\ SetRead(Returned([r EXCEPT !.emails = Some(GetEmailsCaught),
                                        !.failed = @ \cup {"getEmails"}], now))
       \/ /\ NoFail
          /\ SetRead(Returned([r EXCEPT
                 !.emails = Some(LRange(list, 0, r.limit - 1))], now))
    /\ UNCHANGED <<now, mailbox, testKey, wire, memory, store, post, clr, served, hist>>

\* getEmail: await redis.get(`gmail:email:${id}`)
GetEmailCall ==
    /\ rd.pc = "running" /\ rd.op = "getEmail"
    /\ LET r == Observe(rd) IN
       \/ /\ MayFail /\ Fail
          /\ SetRead([r EXCEPT !.pc = "done", !.result = GetEmailCaught,
                               !.failed = @ \cup {"getEmail"}])
       \/ /\ NoFail
          /\ SetRead([r EXCEPT !.pc = "done",
                               !.result = Get(ByIdKey(r.id), now)])
    /\ UNCHANGED <<now, mailbox, testKey, wire, memory, store, post, clr, served, hist>>

StatsFailed(r) ==
    [r EXCEPT !.stats = Some(GetStatsCaught), !.spc = "done",
              !.failed = @ \cup {"getStats"}]

\* getStats: redis.llen(this.emailsKey), one of the two calls of Promise.all
StatsLLen ==
    /\ rd.pc = "running" /\ rd.spc = "counts" /\ rd.llen = None
    /\ LET r == Observe(rd) IN
       \/ /\ MayFail /\ Fail
          /\ SetRead(Returned(StatsFailed(r), now))
       \/ /\ NoFail
          /\ SetRead([r EXCEPT !.llen = Some(LLen(list)),
                               !.spc = IF r.last # None THEN "newest" ELSE @])
    /\ UNCHANGED <<now, mailbox, testKey, wire, memory, store, post, clr, served, hist>>

\* getStats: redis.get('gmail:stats:lastReceived'), the other one
StatsGet ==
    /\ rd.pc = "running" /\ rd.spc = "counts" /\ rd.last = None
    /\ LET r == Observe(rd) IN
       \/ /\ MayFail /\ Fail
          /\ SetRead(Returned(StatsFailed(r), now))
       \/ /\ NoFail
          /\ SetRead([r EXCEPT !.last = Some(Get(lastReceived, now)),
                               !.getAt = now,
                               !.spc = IF r.llen # None THEN "newest" ELSE @])
    /\ UNCHANGED <<now, mailbox, testKey, wire, memory, store, post, clr, served, hist>>

\* getStats: const emails = await redis.lrange(this.emailsKey, 0, 0)
StatsNewest ==
    /\ rd.pc = "running" /\ rd.spc = "newest"
    /\ LET r == Observe(rd) IN
       \/ /\ MayFail /\ Fail
          /\ SetRead(Returned(StatsFailed(r), now))
       \/ /\ NoFail
          /\ SetRead([r EXCEPT !.newest = LRange(list, 0, 0),
                               !.spc = "oldest"])
    /\ UNCHANGED <<now, mailbox, testKey, wire, memory, store, post, clr, served, hist>>

\* const oldestEmails = await redis.lrange(this.emailsKey, -1, -1)
StatsOldestRangeHead(lst) == LRange(lst, 0, 0)
StatsOldestRange(lst) == LRange(lst, -1, -1)

\* getStats: the second lrange, and the object it returns
StatsOldest ==
    /\ rd.pc = "running" /\ rd.spc = "oldest"
    /\ LET r == Observe(rd) IN
       \/ /\ MayFail /\ Fail
          /\ SetRead(Returned(StatsFailed(r), now))
       \/ /\ NoFail
          /\ SetRead(Returned([r EXCEPT
                 !.spc = "done",
                 !.stats = Some([totalEmails |-> r.llen[1],
                                 newestEmail |-> FirstDate(r.newest),
                                 oldestEmail |->
                                     FirstDate(StatsOldestRange(list)),
                                 lastReceived |-> r.last[1]])], now))
    /\ UNCHANGED <<now, mailbox, testKey, wire, memory, store, post, clr, served, hist>>

\* GET /api/gmail/webhook: answered at once, no backend call
HealthGet ==
    /\ rd.pc = "idle"
    /\ SetRead([rd EXCEPT !.op = "health", !.pc = "done",
                          !.result = Some(HealthReport),
                          !.epoch = Epoch, !.quiet = WritersQuiet])
    /\ UNCHANGED <<now, mailbox, testKey, wire, memory, store, post, clr, faults, served, hist>>

\* testConnection: await redis.set('test:connection', 'connected', {ex: 10})
TestSetAddsEmail ==
    /\ rd.pc = "testSet"
    /\ NoFail
    /\ testKey' = Some(SetEx("connected", TestTTL, now))
    /\ list' = LPush(list, TestEmail([emailAddress |-> None,
                                       historyId |-> CurTest], now))
    /\ SetRead([Observe(rd) EXCEPT !.pc = "testGet"])
    /\ UNCHANGED <<now, mailbox, wire, memory, byId, lastReceived, post, clr, served, hist>>
TestSet ==
    /\ rd.pc = "testSet"
    /\ LET r == Observe(rd) IN
       \/ /\ MayFail /\ Fail
          \* catch (error) { return false }
          /\ SetRead([r EXCEPT !.pc = "running", !.connected = Some(FALSE),
                               !.failed = @ \cup {"testConnection"}])
          /\ UNCHANGED testKey
       \/ /\ NoFail
          /\ testKey' = Some(SetEx("connected", TestTTL, now))
          /\ SetRead([r EXCEPT !.pc = "testGet"])
    /\ UNCHANGED <<now, mailbox, wire, memory, store, post, clr, served, hist>>

\* testConnection: await redis.get(testKey); return result === 'connected'
TestGet ==
    /\ rd.pc = "testGet"
    /\ LET r == Observe(rd) IN
       \/ /\ MayFail /\ Fail
          /\ SetRead([r EXCEPT !.pc = "running", !.connected = Some(FALSE),
                               !.failed = @ \cup {"testConnection"}])
       \/ /\ NoFail
          /\ SetRead([r EXCEPT !.pc = "running",
                               !.connected =
                                   Some(Get(testKey, now) = Some("connected"))])
    /\ UNCHANGED <<now, mailbox, testKey, wire, memory, store, post, clr, served, hist>>

ReadStep ==
    \/ ReadStart
    \/ HealthGet
    \/ TestSet
    \/ TestGet
    \/ GetEmailsCall
    \/ GetEmailCall
    \/ StatsLLen
    \/ StatsGet
    \/ StatsNewest
    \/ StatsOldest

(***************************************************************************)
(* One request of a valid notification and one clear(), one at a time, and *)
(* one call of the read surface interleaved with them at every await.      *)
(* Time passes between the calls and before the read.                      *)
(***************************************************************************)
ReadEnvelopes ==
    { Envelope("object", "present", "object", Some(AccountId), c) :
        c \in {CurTest, CurNum} }

ReadNext ==
    \/ ClearQuiet /\ PostStep(1, ReadEnvelopes)
    \/ Quiet(1) /\ ClearStep
    \/ ReadStep
    \/ WritersQuiet /\ rd.pc = "idle" /\ Tick

ReadSpec == Init /\ [][ReadNext]_vars

(***************************************************************************)
(* The provider holds one raw message, any of RawMessages, as its unread   *)
(* message, and one notification with a numeric cursor is processed.       *)
(***************************************************************************)
\* A message arrives in the mailbox.
Deliver ==
    /\ mailbox = None
    /\ \E m \in RawMessages : mailbox' = Some(m)
    /\ UNCHANGED <<now, store, post, clr, faults, served, hist, rd, testKey, wire, memory>>

ExtractEnvelopes ==
    { Envelope("object", "present", "object", Some(AccountId), CurNum) }

ExtractNext ==
    \/ (\A p \in Posts : post[p].pc = "idle") /\ Deliver
    \/ mailbox # None /\ PostStep(1, ExtractEnvelopes)

ExtractSpec == Init /\ [][ExtractNext]_vars

(***************************************************************************)
(* The decoding of a notification: message.data is base64 of a JSON text.  *)
(* Texts are sequences of characters, all of them printable ASCII.         *)
(***************************************************************************)
\* The printable ASCII characters in the order of their codes, from 32 on
\* (the grave accent, code 96, by its name).
Ascii ==
    << " ", "!", "\"", "#", "$", "%", "&", "'", "(", ")", "*", "+", ",",
       "-", ".", "/", "0", "1", "2", "3", "4", "5", "6", "7", "8", "9",
       ":", ";", "<", "=", ">", "?", "@", "A", "B", "C", "D", "E", "F",
       "G", "H", "I", "J", "K", "L", "M", "N", "O", "P", "Q", "R", "S",
       "T", "U", "V", "W", "X", "Y", "Z", "[", "\\", "]", "^", "_", "grave",
       "a", "b", "c", "d", "e", "f", "g", "h", "i", "j", "k", "l", "m",
       "n", "o", "p", "q", "r", "s", "t", "u", "v", "w", "x", "y", "z",
       "{", "|", "}", "~" >>

CharCode(c) == 31 + (CHOOSE i \in 1..Len(Ascii) : Ascii[i] = c)
CharOf(code) == Ascii[code - 31]

Base64Alphabet ==
    << "A", "B", "C", "D", "E", "F", "G", "H", "I", "J", "K", "L", "M",
       "N", "O", "P", "Q", "R", "S", "T", "U", "V", "W", "X", "Y", "Z",
       "a", "b", "c", "d", "e", "f", "g", "h", "i", "j", "k", "l", "m",
       "n", "o", "p", "q", "r", "s", "t", "u", "v", "w", "x", "y", "z",
       "0", "1", "2", "3", "4", "5", "6", "7", "8", "9", "+", "/" >>

Sextet(c) == (CHOOSE i \in 1..64 : Base64Alphabet[i] = c) - 1

\* The bytes a sequence of sextets stands for: four sextets make three
\* bytes, a last group of two or three makes one or two.
RECURSIVE Base64Bytes(_)
Base64Bytes(sx) ==
    IF Len(sx) < 2 THEN <<>>
    ELSE LET b1 == sx[1] * 4 + sx[2] \div 16 IN
         IF Len(sx) = 2 THEN <<b1>>
         ELSE LET b2 == (sx[2] % 16) * 16 + sx[3] \div 4 IN
              IF Len(sx) = 3 THEN <<b1, b2>>
              ELSE <<b1, b2, (sx[3] % 4) * 64 + sx[4]>>
                     \o Base64Bytes(SubSeq(sx, 5, Len(sx)))

\* Buffer.from(data, 'base64').toString('utf-8'): the padding and any
\* character outside the alphabet are passed over.
FromBase64(data) ==
    LET kept == SelectSeq(data, LAMBDA c :
                    \E i \in 1..64 : Base64Alphabet[i] = c)
        bytes == Base64Bytes([i \in 1..Len(kept) |-> Sextet(kept[i])])
    IN  [i \in 1..Len(bytes) |-> CharOf(bytes[i])]

\* The width of a number's mantissa, 53 bits in the code.
SafeBits == 3

RECURSIVE Log2(_)
Log2(n) == IF n < 2 THEN 0 ELSE 1 + Log2(n \div 2)

\* The double nearest to the natural number n, ties to even.
RoundDoubleUpward(n) == n + 1
RoundDouble(n) ==
    IF Log2(n) < SafeBits THEN n
    ELSE LET unit == 2 ^ (Log2(n) - SafeBits + 1)
             q == n \div unit
             r == n % unit
         IN  IF 2 * r > unit \/ (2 * r = unit /\ q % 2 = 1)
             THEN (q + 1) * unit ELSE q * unit

\* String(n), for a natural number
RECURSIVE IntChars(_)
IntChars(n) ==
    IF n < 10 THEN <<ToString(n)>>
    ELSE Append(IntChars(n \div 10), ToString(n % 10))

Failed(i) == [ok |-> FALSE, val |-> <<>>, next |-> i]

\* A JSON string from the character after its opening quote: its
\* characters, \" and \\ unescaped, and the position after its closing quote.
RECURSIVE ScanString(_, _, _)
ScanString(text, i, acc) ==
    IF i > Len(text) THEN Failed(i)
    ELSE IF text[i] = "\"" THEN [ok |-> TRUE, val |-> acc, next |-> i + 1]
    ELSE IF text[i] = "\\"
    THEN IF i < Len(text) /\ text[i + 1] \in {"\"", "\\"}
         THEN ScanString(text, i + 2, Append(acc, text[i + 1]))
         ELSE Failed(i)
    ELSE ScanString(text, i + 1, Append(acc, text[i]))

\* The position after the digits that begin at i.
RECURSIVE ScanDigits(_, _)
ScanDigits(text, i) ==
    IF i <= Len(text) /\ text[i] \in Digits THEN ScanDigits(text, i + 1) ELSE i

\* A JSON number at i, an integer: the value is a double, held as the
\* characters String() makes of it.
ScanNumber(text, i) ==
    LET neg == text[i] = "-"
        from == IF neg THEN i + 1 ELSE i
        to == ScanDigits(text, from)
        digits == SubSeq(text, from, to - 1)
    IN  IF digits = <<>> \/ (Len(digits) > 1 /\ digits[1] = "0") THEN Failed(i)
        ELSE LET n == RoundDouble(ParseInt(digits)) IN
             [ok |-> TRUE,
              val |-> [t |-> "num",
                       s |-> IF neg /\ n # 0 THEN <<"-">> \o IntChars(n)
                             ELSE IntChars(n)],
              next |-> to]

\* A JSON value at i: a string or a number.
ScanValue(text, i) ==
    IF i > Len(text) THEN Failed(i)
    ELSE IF text[i] = "\""
    THEN LET str == ScanString(text, i + 1, <<>>) IN
         IF str.ok THEN [str EXCEPT !.val = [t |-> "str", s |-> str.val]]
         ELSE str
    ELSE IF text[i] \in Digits \cup {"-"} THEN ScanNumber(text, i)
    ELSE Failed(i)

\* The members of a JSON object from position i, added to obj; the object
\* must end the text.
RECURSIVE ScanMembers(_, _, _)
ScanMembers(text, i, obj) ==
    IF i > Len(text) \/ text[i] # "\"" THEN Failed(i)
    ELSE LET key == ScanString(text, i + 1, <<>>) IN
         IF ~key.ok \/ key.next > Len(text) \/ text[key.next] # ":"
         THEN Failed(i)
         ELSE LET v == ScanValue(text, key.next + 1) IN
              IF ~v.ok \/ v.next > Len(text) THEN Failed(i)
              ELSE LET obj1 == MapPut(obj, Join(key.val), v.val) IN
                   IF text[v.next] = ","
                   THEN ScanMembers(text, v.next + 1, obj1)
                   ELSE IF text[v.next] = "}" /\ v.next = Len(text)
                   THEN [ok |-> TRUE, val |-> obj1, next |-> v.next + 1]
                   ELSE Failed(i)

\* JSON.parse(text): "invalid" when it throws, "null", or an object, held
\* as the map of its members.  A string or a number alone has no members.
JsonParse(text) ==
    IF text = <<"n", "u", "l", "l">> THEN [json |-> "null", obj |-> EmptyMap]
    ELSE IF text = <<"{", "}">> THEN [json |-> "object", obj |-> EmptyMap]
    ELSE IF text # <<>> /\ text[1] = "{"
    THEN LET m == ScanMembers(text, 2, EmptyMap) IN
         IF m.ok THEN [json |-> "object", obj |-> m.val]
         ELSE [json |-> "invalid", obj |-> EmptyMap]
    ELSE LET v == ScanValue(text, 1) IN
         IF v.ok /\ v.next = Len(text) + 1
         THEN [json |-> "object", obj |-> EmptyMap]
         ELSE [json |-> "invalid", obj |-> EmptyMap]

\* const notification = JSON.parse(decodedData), as the handler reads it:
\* notification.emailAddress and notification.historyId.
Decode(data) ==
    LET parsed == JsonParse(FromBase64(data)) IN
    [json |-> parsed.json,
     emailAddress |-> IF "emailAddress" \in DOMAIN parsed.obj
                      THEN Some(parsed.obj["emailAddress"]) ELSE None,
     historyId |-> IF "historyId" \in DOMAIN parsed.obj
                   THEN parsed.obj["historyId"] ELSE CurAbsent]

\* The envelope of a notification whose message.data is data.
EnvelopeOf(data) ==
    LET n == Decode(data) IN
    Envelope("object", "present", n.json,
             IF n.emailAddress = None THEN None
             ELSE Some(Join(n.emailAddress[1].s)),
             n.historyId)

\* {"emailAddress":"user@example.com","historyId":7}
WireNum ==
    << "e", "y", "J", "l", "b", "W", "F", "p", "b", "E", "F", "k", "Z",
       "H", "J", "l", "c", "3", "M", "i", "O", "i", "J", "1", "c", "2",
       "V", "y", "Q", "G", "V", "4", "Y", "W", "1", "w", "b", "G", "U",
       "u", "Y", "2", "9", "t", "I", "i", "w", "i", "a", "G", "l", "z",
       "d", "G", "9", "y", "e", "U", "l", "k", "I", "j", "o", "3", "f",
       "Q", "=", "=" >>

\* {"emailAddress":"user@example.com","historyId":"12"}
WireStr ==
    << "e", "y", "J", "l", "b", "W", "F", "p", "b", "E", "F", "k", "Z",
       "H", "J", "l", "c", "3", "M", "i", "O", "i", "J", "1", "c", "2",
       "V", "y", "Q", "G", "V", "4", "Y", "W", "1", "w", "b", "G", "U",
       "u", "Y", "2", "9", "t", "I", "i", "w", "i", "a", "G", "l", "z",
       "d", "G", "9", "y", "e", "U", "l", "k", "I", "j", "o", "i", "M",
       "T", "I", "i", "f", "Q", "=", "=" >>

\* {"emailAddress":"user@example.com","historyId":13}
WireBig ==
    << "e", "y", "J", "l", "b", "W", "F", "p", "b", "E", "F", "k", "Z",
       "H", "J", "l", "c", "3", "M", "i", "O", "i", "J", "1", "c", "2",
       "V", "y", "Q", "G", "V", "4", "Y", "W", "1", "w", "b", "G", "U",
       "u", "Y", "2", "9", "t", "I", "i", "w", "i", "a", "G", "l", "z",
       "d", "G", "9", "y", "e", "U", "l", "k", "I", "j", "o", "x", "M",
       "3", "0", "=" >>

\* {"historyId":7,"emailAddress":"a\"b\\c"}
WireEscaped ==
    << "e", "y", "J", "o", "a", "X", "N", "0", "b", "3", "J", "5", "S",
       "W", "Q", "i", "O", "j", "c", "s", "I", "m", "V", "t", "Y", "W",
       "l", "s", "Q", "W", "R", "k", "c", "m", "V", "z", "c", "y", "I",
       "6", "I", "m", "F", "c", "I", "m", "J", "c", "X", "G", "M", "i",
       "f", "Q", "=", "=" >>

\* {"emailAddress":"user@example.com","historyId":"test-123"}
WireTest ==
    << "e", "y", "J", "l", "b", "W", "F", "p", "b", "E", "F", "k", "Z",
       "H", "J", "l", "c", "3", "M", "i", "O", "i", "J", "1", "c", "2",
       "V", "y", "Q", "G", "V", "4", "Y", "W", "1", "w", "b", "G", "U",
       "u", "Y", "2", "9", "t", "I", "i", "w", "i", "a", "G", "l", "z",
       "d", "G", "9", "y", "e", "U", "l", "k", "I", "j", "o", "i", "d",
       "G", "V", "z", "d", "C", "0", "x", "M", "j", "M", "i", "f", "Q",
       "=", "=" >>

\* {"emailAddress":"user@example.com"}
WireNoCursor ==
    << "e", "y", "J", "l", "b", "W", "F", "p", "b", "E", "F", "k", "Z",
       "H", "J", "l", "c", "3", "M", "i", "O", "i", "J", "1", "c", "2",
       "V", "y", "Q", "G", "V", "4", "Y", "W", "1", "w", "b", "G", "U",
       "u", "Y", "2", "9", "t", "I", "n", "0", "=" >>

\* {"emailAddress":"user@example.com","historyId":-5}
WireNeg ==
    << "e", "y", "J", "l", "b", "W", "F", "p", "b", "E", "F", "k", "Z",
       "H", "J", "l", "c", "3", "M", "i", "O", "i", "J", "1", "c", "2",
       "V", "y", "Q", "G", "V", "4", "Y", "W", "1", "w", "b", "G", "U",
       "u", "Y", "2", "9", "t", "I", "i", "w", "i", "a", "G", "l", "z",
       "d", "G", "9", "y", "e", "U", "l", "k", "I", "j", "o", "t", "N",
       "X", "0", "=" >>

\* not json
WireNotJson ==
    << "b", "m", "9", "0", "I", "G", "p", "z", "b", "2", "4", "=" >>

\* null
WireNull ==
    << "b", "n", "V", "s", "b", "A", "=", "=" >>

\* {"emailAddress":"user@example.com","historyId":7,"x":"y"}
WireExtra ==
    << "e", "y", "J", "l", "b", "W", "F", "p", "b", "E", "F", "k", "Z",
       "H", "J", "l", "c", "3", "M", "i", "O", "i", "J", "1", "c", "2",
       "V", "y", "Q", "G", "V", "4", "Y", "W", "1", "w", "b", "G", "U",
       "u", "Y", "2", "9", "t", "I", "i", "w", "i", "a", "G", "l", "z",
       "d", "G", "9", "y", "e", "U", "l", "k", "I", "j", "o", "3", "L",
       "C", "J", "4", "I", "j", "o", "i", "e", "S", "J", "9" >>

Wires ==
    { WireNum, WireStr, WireBig, WireEscaped,
      WireTest, WireNoCursor, WireNeg, WireNotJson,
      WireNull, WireExtra }

(***************************************************************************)
(* Pub/Sub sends one notification, with any of Wires as its data, and the  *)
(* webhook processes it.                                                   *)
(***************************************************************************)
Publish ==
    /\ wire = None
    /\ \E w \in Wires : wire' = Some(w)
    /\ UNCHANGED <<now, store, post, clr, faults, served, hist, rd, mailbox,
                   testKey, memory>>

DecodeNext ==
    \/ (\A p \in Posts : post[p].pc = "idle") /\ Publish
    \/ wire # None /\ PostStep(1, {EnvelopeOf(wire[1])})

DecodeSpec == Init /\ [][DecodeNext]_vars



(***************************************************************************)
(* Properties.                                                             *)
(***************************************************************************)
Min(a, b) == IF a < b THEN a ELSE b

\* The entries of lst with that id.
Count(lst, id) == Cardinality({i \in 1..Len(lst) : lst[i].id = id})

InAddEmail(p) == post[p].pc \in {"lpush", "ltrim", "set", "updateStats"}

\* The step on which clear() returns true.
ClearSucceeds == clr.pc # "done" /\ clr'.pc = "done" /\ clr'.result = Some(TRUE)

\* C1: every webhook POST that has ended has answered {status: 'ok'} with
\* HTTP 200, whatever branch it took (unparsable body, no data, data that is
\* not JSON, test cursor, 0, 1 or several messages, a failed provider call,
\* a failed backend call), and no request is anywhere but in the handler or
\* answered.
C1_AlwaysAcknowledged ==
    \A p \in Posts :
        /\ post[p].pc \in {"idle", "historyList", "messagesList", "messagesGet",
                           "historyGet", "lpush", "ltrim", "set", "updateStats",
                           "done"}
        /\ post[p].pc = "done" <=> post[p].resp # None
        /\ post[p].resp # None => post[p].resp[1] = [status |-> 200, body |-> "ok"]

\* A request answered after a backend call failed during its insert.
C1_Witness ==
    \E p \in Posts :
        /\ post[p].pc = "done" /\ post[p].addFailed
        /\ post[p].resp = Some([status |-> 200, body |-> "ok"])

\* C2: from an empty store, once more than maxEmails records with distinct
\* ids have been inserted one after another, all successfully and with no
\* clear, list(maxEmails) is the maxEmails latest of them, newest first, and
\* every earlier one is returned by getById exactly while the TTL of its
\* by-id key has not elapsed.
C2_EvictionKeepsById ==
    LET n == Len(log) IN
    ( /\ clr.pc = "idle"
      /\ \A p \in Posts : ~InAddEmail(p)
      /\ \A i \in 1..n : log[i].ok
      /\ \A i, j \in 1..n : i # j => log[i].rec.id # log[j].rec.id
      /\ n > maxEmails )
    => /\ getEmails(maxEmails) = [i \in 1..maxEmails |-> log[n + 1 - i].rec]
       /\ \A i \in 1..(n - maxEmails) :
             LET r == log[i].rec IN
             /\ r.id \in DOMAIN setLog
             /\ getEmail(r.id) =
                  IF now < setLog[r.id].at + TTL THEN Some(r) ELSE None

\* More than maxEmails distinct records inserted and the evicted one still
\* fetched by id.
C2_Witness ==
    /\ clr.pc = "idle" /\ \A p \in Posts : ~InAddEmail(p)
    /\ Len(log) > maxEmails
    /\ \A i \in 1..Len(log) : log[i].ok
    /\ \A i, j \in 1..Len(log) : i # j => log[i].rec.id # log[j].rec.id
    /\ Len(getEmails(maxEmails)) = maxEmails
    /\ Count(list, log[1].rec.id) = 0
    /\ getEmail(log[1].rec.id) = Some(log[1].rec)

\* C3: for every limit, 0 and limits above the cap included, list(limit) is
\* the first min(limit, length) entries of the ordered sequence.
C3_ListReturnsPrefix ==
    \A limit \in Limits :
        getEmails(limit) = SubSeq(list, 1, Min(limit, Len(list)))

\* C4: when clear() returns true with nothing running beside it (and no call
\* has failed), getById finds no id that was ever inserted, the evicted ones
\* included.
C4_ClearRemovesEveryId ==
    [][(ClearSucceeds /\ faults = 0) =>
          \A i \in 1..Len(log) :
              log[i].ok => Get(IF log[i].rec.id \in DOMAIN byId'
                               THEN Some(byId'[log[i].rec.id]) ELSE None,
                               now') = None]_vars

\* C5: a reader never sees a by-id entry already deleted by a running clear()
\* while the ordered sequence or the last-received value is still there (no
\* call having failed).
C5_ClearAllOrNothing ==
    (clr.pc \notin {"idle", "done"} /\ clr.deleted # {} /\ faults = 0)
    => (getEmails(maxEmails) = <<>> /\ getStats.lastReceived = None)

\* C6: for every limit, right after clear() returned true list(limit) is
\* empty and stats() reports totalEmails = 0.
C6_ClearThenEmpty ==
    [][ClearSucceeds =>
          /\ \A limit \in Limits : getEmailsOf(list', limit) = <<>>
          /\ getStatsOf(list', lastReceived', now').totalEmails = 0]_vars

\* clear() has returned true after deleting the by-id key of a stored record.
C6_Witness ==
    /\ clr.pc = "done" /\ clr.result = Some(TRUE) /\ clr.deleted # {}
    /\ getEmails(maxEmails) = <<>> /\ getStats.totalEmails = 0

\* C7: insert does not deduplicate.  A push of a record adds one entry with
\* its id, whether or not the id is in the sequence already; and once two
\* notifications for the same cursor have both gone the fallback way to the
\* same unread message and stored it, with no more inserts than the cap
\* holds, the sequence has two entries with that id and the by-id index one
\* entry for it, a record of that id.
C7_TwoFallbacks ==
    \A p, q \in Posts :
        ( /\ p < q
          /\ post[p].pc = "done" /\ post[q].pc = "done"
          /\ post[p].path = "fallback" /\ post[q].path = "fallback"
          /\ post[p].cursor = post[q].cursor
          /\ Len(post[p].fetched) = 1 /\ post[p].fetched = post[q].fetched
          /\ ~post[p].addFailed /\ ~post[q].addFailed
          /\ \A o \in Posts \ {p, q} : post[o].nAdd = 0 )
        => LET id == post[p].fetched[1] IN
           /\ Count(list, id) = 2
           /\ id \in DOMAIN byId
           /\ byId[id].val.id = id

C7_PushAddsEntry ==
    \A p \in Posts :
        (post[p].pc = "lpush" /\ post'[p].pc = "ltrim")
        => /\ Count(list', post[p].rec[1].id) = Count(list, post[p].rec[1].id) + 1
           /\ Len(list') = Len(list) + 1

\* C7: insert never deduplicates by id: every push adds an entry, and two
\* fallback notifications for the same cursor and message leave two entries
\* with that id in the sequence and one by-id entry.
C7_NoDedup == [](C7_TwoFallbacks) /\ [][C7_PushAddsEntry]_vars

\* Both notifications have stored the same unread message.
C7_Witness ==
    /\ post[1].pc = "done" /\ post[2].pc = "done"
    /\ post[1].path = "fallback" /\ post[2].path = "fallback"
    /\ post[1].cursor = post[2].cursor
    /\ post[1].fetched = <<"m3">> /\ post[2].fetched = <<"m3">>
    /\ ~post[1].addFailed /\ ~post[2].addFailed
    /\ Count(list, "m3") = 2

\* The ids the store has seen.
KnownIds ==
    MsgIds \cup DOMAIN byId \cup DOMAIN setLog
      \cup {list[i].id : i \in 1..Len(list)}
      \cup {log[i].rec.id : i \in 1..Len(log)}

\* C8: getById(id) returns the record of the latest SET of the id's key that
\* no DEL has removed, while that SET is less than TTL old, and nothing
\* otherwise: whether the sequence holds a record of that id plays no part.
C8_GetByIdIndexOnly ==
    \A id \in KnownIds :
        getEmail(id) =
            IF id \in DOMAIN setLog /\ now < setLog[id].at + TTL
            THEN Some(setLog[id].rec) ELSE None

\* A record still in the sequence whose by-id entry has expired.
C8_Witness ==
    \E i \in 1..Len(list) :
        /\ list[i].id \in DOMAIN byId
        /\ byId[list[i].id].val = list[i]
        /\ getEmail(list[i].id) = None

\* C9: a request (of a well-formed notification) with a failed provider call
\* inserts nothing.
C9_ProviderFailureInsertsNothing ==
    \A p \in Posts :
        (post[p].provFailed /\ ~post[p].decodeFails) => post[p].nAdd = 0

\* C10: a request whose envelope does not decode (no data, not JSON, account
\* identifier or cursor absent) makes no provider call and no insert.
C10_DecodeFailureStops ==
    \A p \in Posts :
        post[p].decodeFails => post[p].calls = <<>> /\ post[p].nAdd = 0

\* Whether a string fails ^\d+$: it is empty or has a character that is not a
\* decimal digit.
NotAllDigits(str) == str = <<>> \/ \E i \in 1..Len(str) : str[i] \notin Digits

ProviderPcs == {"historyList", "messagesList", "messagesGet", "historyGet"}

HasCall(r, name) == \E i \in 1..Len(r.calls) : r.calls[i] = name

\* The last addEmail call that has returned.
LastLog == log[Len(log)]

\* C11: for a cursor whose string form does not match ^\d+$ ("undefined",
\* "1a", "", "-5", "test-123") the request never calls history.list, never
\* enters the fallback (no messages.list, no messages.get), and reconcile,
\* when the request reaches it, returns the empty sequence without raising:
\* the handler goes on to its acknowledgement with nothing to insert.
C11_InvalidCursorNoCalls ==
    \A p \in Posts :
        NotAllDigits(String(post[p].cursor)) =>
            /\ post[p].calls = <<>>
            /\ post[p].pc \notin ProviderPcs
            /\ post[p].history = None /\ post[p].page = None
            /\ post[p].fetched = <<>> /\ ~post[p].provFailed
            /\ post[p].path \in {"none", "test", "invalid"}
            /\ post[p].path = "invalid" =>
                  /\ post[p].pc = "done" /\ post[p].nAdd = 0
                  /\ post[p].resp = Some(AckResponse)

\* Reconcile has returned for the cursor "1a", which begins with a digit.
C11_Witness ==
    \E p \in Posts :
        /\ post[p].cursor = CurBad /\ post[p].path = "invalid"
        /\ post[p].pc = "done" /\ post[p].calls = <<>>

\* C12: messages.list (the fallback) is called only after history.list
\* answered with zero entries; when it answered with at least one entry the
\* fallback is never entered, and if no entry holds an added message
\* reconcile returns the empty sequence after that one call.
C12_FallbackOnlyOnEmptyHistory ==
    \A p \in Posts :
        LET r == post[p]
            inFallback == \/ r.pc \in {"messagesList", "messagesGet"}
                          \/ r.page # None
                          \/ HasCall(r, "messages.list")
        IN  /\ inFallback => r.history = Some(<<>>)
            /\ (r.history # None /\ Len(r.history[1]) > 0) => ~inFallback
            /\ ( /\ r.history # None /\ Len(r.history[1]) > 0
                 /\ AddedIds(r.history[1]) = <<>> )
               => /\ r.pc = "done" /\ r.fetched = <<>> /\ r.nAdd = 0
                  /\ r.calls = <<"history.list">>

\* history.list answered with one entry that has no added message, and the
\* request ended without entering the fallback.
C12_Witness ==
    \E p \in Posts :
        /\ post[p].history = Some(<< None >>)
        /\ post[p].pc = "done" /\ post[p].fetched = <<>>
        /\ post[p].calls = <<"history.list">>

\* C13: a request that went the fallback way never makes more than one
\* insert; once it has ended with no call failed, it has made exactly one
\* insert, of the first listed unread message, if messages.list listed a
\* message (with an id), and none if it listed nothing.
C13_FallbackInsertsAtMostOne ==
    \A p \in Posts :
        LET r == post[p] IN
        r.path = "fallback" =>
            /\ r.nAdd <= 1
            /\ (r.pc = "done" /\ ~r.provFailed /\ ~r.addFailed) =>
                  /\ r.page # None
                  /\ IF r.page[1] # <<>> /\ r.page[1][1] # None
                     THEN /\ r.nAdd = 1
                          /\ r.fetched = << r.page[1][1][1] >>
                          /\ log # <<>> /\ LastLog.ok
                          /\ LastLog.rec.id = r.page[1][1][1]
                          /\ LastLog.cursor = r.cursor
                     ELSE r.nAdd = 0 /\ r.fetched = <<>>

\* The fallback found the unread message m3 and the request stored it.
C13_Witness ==
    \E p \in Posts :
        /\ post[p].path = "fallback" /\ post[p].pc = "done"
        /\ post[p].page = Some(<< Some("m3") >>)
        /\ post[p].nAdd = 1 /\ ~post[p].addFailed
        /\ log # <<>> /\ LastLog.ok /\ LastLog.rec.id = "m3"

\* C14: every record in the ordered sequence and in the by-id index carries
\* as historyId the cursor of the notification whose request inserted it,
\* whichever way the request went (history, fallback, placeholder).
C14_RecordsCarryCursor ==
    LET Produced(rec) ==
            \/ \E i \in 1..Len(log) :
                  log[i].rec = rec /\ log[i].cursor = rec.historyId
            \/ \E p \in Posts :
                  post[p].rec = Some(rec) /\ post[p].cursor = rec.historyId
    IN  /\ \A i \in 1..Len(list) : Produced(list[i])
        /\ \A id \in DOMAIN byId : Produced(byId[id].val)

\* A placeholder stamped "test-123" stored on top of a fallback record
\* stamped 7.
C14_Witness ==
    /\ Len(list) = 2
    /\ list[1].threadId = "test" /\ list[1].historyId = CurTest
    /\ list[2].id = "m3" /\ list[2].historyId = CurNum
    /\ "m3" \in DOMAIN byId /\ byId["m3"].val.historyId = CurNum

\* The placeholder of the cursor "test-123": the subject holds the marker
\* "Test", the snippet holds the cursor's text.
IsPlaceholder(rec) ==
    /\ rec.subject = "[" \o "Test" \o "] Pub/Sub Notification Test"
    /\ rec.snippet = "Test notification with history ID: " \o "test-123"
    /\ rec.historyId = CurTest

\* C15: a request whose decoded cursor is "test-123" makes no provider call
\* and exactly one insert, of a placeholder whose subject holds the test
\* marker and whose snippet holds the cursor's text.
C15_TestCursorPlaceholder ==
    \A p \in Posts :
        LET r == post[p] IN
        r.cursor = CurTest =>
            /\ r.calls = <<>> /\ r.pc \notin ProviderPcs
            /\ r.history = None /\ r.page = None /\ r.fetched = <<>>
            /\ r.nAdd = 1
            /\ InAddEmail(p) => r.rec # None /\ IsPlaceholder(r.rec[1])
            /\ r.pc = "done" =>
                  /\ log # <<>> /\ IsPlaceholder(LastLog.rec)
                  /\ LastLog.ok <=> ~r.addFailed

\* The placeholder has been stored.
C15_Witness ==
    \E p \in Posts :
        /\ post[p].cursor = CurTest /\ post[p].pc = "done" /\ ~post[p].addFailed
        /\ list # <<>> /\ IsPlaceholder(list[1])
        /\ list[1].id \in DOMAIN byId

\* C16: whatever backend call fails during the insert of one record, the
\* request calls addEmail for every record reconcile returned, in order: at
\* the end the last calls of the log are those of its records, one each.
C16_InsertFailureContinues ==
    \A p \in Posts :
        LET r == post[p] IN
        /\ (InAddEmail(p) /\ r.path \in {"history", "fallback"}) =>
              r.nAdd + Len(r.queue) = Len(r.fetched)
        /\ (r.pc = "done" /\ r.path \in {"history", "fallback"}) =>
              /\ r.nAdd = Len(r.fetched)
              /\ Len(log) >= r.nAdd
              /\ \A i \in 1..r.nAdd :
                    log[Len(log) - r.nAdd + i].rec.id = r.fetched[i]

\* The insert of m1 failed and m2 was inserted after it.
C16_Witness ==
    \E p \in Posts :
        /\ post[p].pc = "done" /\ post[p].fetched = <<"m1", "m2">>
        /\ post[p].addFailed
        /\ Len(log) = 2
        /\ log[1].rec.id = "m1" /\ ~log[1].ok
        /\ log[2].rec.id = "m2" /\ log[2].ok

\* A backend command of the read call runs, or the call begins.
ReadActs ==
    \/ rd'.pc # rd.pc \/ rd'.spc # rd.spc \/ rd'.llen # rd.llen
    \/ rd'.last # rd.last \/ rd'.emails # rd.emails

\* Nothing has been inserted or cleared since the read call began, and
\* nothing is being.
Undisturbed == rd.quiet /\ WritersQuiet /\ Epoch = rd.epoch

C17_DefaultsOnFailure ==
    /\ (rd.op \in {"getEmails", "getEmail", "getStats"} /\ rd.failed # {}) =>
          rd.pc = "done"
    /\ (rd.op = "getEmails" /\ rd.failed # {}) => rd.emails = Some(<<>>)
    /\ (rd.op = "getEmail" /\ rd.failed # {}) => rd.result = None
    /\ (rd.op = "getStats" /\ rd.failed # {}) =>
          rd.stats = Some([totalEmails |-> 0, newestEmail |-> None,
                           oldestEmail |-> None, lastReceived |-> None])

C17_ReadsLeaveStore == ReadActs => store' = store

\* C17: when a backend call of getEmails, getEmail or getStats fails, the
\* call returns (nothing is raised to the caller) with [] / null /
\* {totalEmails: 0, newestEmail: null, oldestEmail: null, lastReceived:
\* null}; and no step of a read call changes the list, the by-id keys or the
\* last-received key.
C17_ReadFailuresSwallowed == [](C17_DefaultsOnFailure) /\ [][C17_ReadsLeaveStore]_vars

\* getStats has answered with the defaults, after a failed call, on a store
\* that holds a record.
C17_Witness ==
    /\ rd.op = "getStats" /\ rd.pc = "done" /\ rd.failed = {"getStats"}
    /\ rd.stats = Some(GetStatsCaught)
    /\ list # <<>> /\ lastReceived # None

\* C18: when a backend call fails during GET /api/emails, the response
\* carries the error flag, an empty record list and the default stats.
C18_ReadApiErrorFlag ==
    (rd.op = "GET" /\ rd.pc = "done" /\ rd.failed # {}) =>
        /\ rd.result[1].error = GetErrorResponse(now).error
        /\ rd.result[1].emails = <<>>
        /\ rd.result[1].stats = ToJson(GetStatsCaught)

EmptyStore == list = <<>> /\ lastReceived = None

\* No date: null, or undefined (the property is absent from a JSON body).
NoDate(v) == v = None \/ v = Undefined

C19_EmptyStats ==
    /\ EmptyStore =>
          /\ getStats.totalEmails = 0 /\ getStats.lastReceived = None
          /\ NoDate(getStats.newestEmail) /\ NoDate(getStats.oldestEmail)
    /\ ( /\ rd.op = "getStats" /\ rd.failed = {} /\ rd.spc # "idle"
         /\ Undisturbed /\ EmptyStore )
       => /\ rd.pc = "done" =>
               /\ rd.stats[1].totalEmails = 0
               /\ rd.stats[1].lastReceived = None
               /\ NoDate(rd.stats[1].newestEmail)
               /\ NoDate(rd.stats[1].oldestEmail)
          /\ rd.pc \in {"running", "done"}

C19_ClearEmpties == (ClearSucceeds /\ WritersQuiet') => EmptyStore'

C20_StatsMatchStore ==
    (rd.op = "getStats" /\ rd.pc = "done" /\ rd.failed = {} /\ Undisturbed) =>
        LET st == rd.stats[1] IN
        /\ st.totalEmails = Len(list)
        /\ st.newestEmail =
              IF list = <<>> THEN Undefined ELSE Some(list[1].date)
        /\ st.oldestEmail =
              IF list = <<>> THEN Undefined ELSE Some(list[Len(list)].date)
        /\ st.lastReceived = Get(lastReceived, rd.getAt)

\* getStats has answered on a list of two records with different dates.
C20_Witness ==
    /\ rd.op = "getStats" /\ rd.pc = "done" /\ rd.failed = {} /\ Undisturbed
    /\ Len(list) = 2 /\ list[1].date # list[2].date
    /\ rd.stats[1].newestEmail = Some(list[1].date)
    /\ rd.stats[1].oldestEmail = Some(list[2].date)
    /\ rd.stats[1].lastReceived # None

\* The records held by the store or on their way into it.
HeldRecords ==
    {list[i] : i \in 1..Len(list)}
      \cup {byId[id].val : id \in DOMAIN byId}
      \cup UNION {IF post[p].rec = None THEN {} ELSE {post[p].rec[1]} :
                    p \in Posts}

\* The raw message a record was extracted from: a stock message, or the one
\* in the mailbox.
SourceOf(rec) ==
    IF rec.id \in {"m1", "m2"} \/ mailbox = None THEN RawMessage(rec.id)
    ELSE mailbox[1]

Extracted(rec) == rec.threadId # "test"

\* The text of a base64 body, group by group.
TextOf(data) ==
    [i \in 1..Len(data) |->
        IF data[i] = "YQ" THEN "a" ELSE IF data[i] = "Yg" THEN "b" ELSE "c"]

HasData(x) == x.body # None /\ x.body[1].data # None /\ x.body[1].data[1] # <<>>

\* The flat body of a raw message is present.
HasFlat(m) == m.payload # None /\ HasData(m.payload[1])

\* The position of the first plain-text part of a raw message, 0 if none.
FirstPlain(m) ==
    IF m.payload = None \/ m.payload[1].parts = None THEN 0
    ELSE LET parts == m.payload[1].parts[1]
             plain == {i \in 1..Len(parts) : parts[i].mimeType = "text/plain"}
         IN  IF plain = {} THEN 0
             ELSE CHOOSE i \in plain : \A j \in plain : i <= j

\* The source body of a raw message, by the order of choice: flat body,
\* first plain-text part, nothing.
SourceText(m) ==
    IF HasFlat(m) THEN TextOf(m.payload[1].body[1].data[1])
    ELSE IF FirstPlain(m) > 0 /\ HasData(m.payload[1].parts[1][FirstPlain(m)])
         THEN TextOf(m.payload[1].parts[1][FirstPlain(m)].body[1].data[1])
    ELSE <<>>

\* C21: every record in the list, in the by-id index or on its way there has
\* a body of at most 1000 characters, and the body of an extracted record is
\* its source body when that has at most 1000 characters and exactly its
\* first 1000 characters when it is longer, flat body and plain-text part
\* alike.
C21_BodyTruncated ==
    \A rec \in HeldRecords :
        /\ Len(rec.body) <= 1000
        /\ Extracted(rec) =>
              LET src == SourceText(SourceOf(rec)) IN
              /\ Len(src) <= 1000 => rec.body = src
              /\ Len(src) > 1000 =>
                    /\ Len(rec.body) = 1000
                    /\ \A i \in 1..1000 : rec.body[i] = src[i]

\* A stored record whose source body, in a plain-text part, has 1002
\* characters.
C21_Witness ==
    /\ mailbox # None /\ ~HasFlat(mailbox[1])
    /\ Len(SourceText(mailbox[1])) = 1002
    /\ list # <<>> /\ Len(list[1].body) = 1000
    /\ list[1].id \in DOMAIN byId /\ Len(byId[list[1].id].val.body) = 1000

\* C22: the body of an extracted record comes from the flat body when there
\* is one; otherwise from the first plain-text part; otherwise it is empty.
\* When the first plain-text part has no data the body is empty whatever a
\* later plain-text part holds, and with a flat body no part is used.
C22_BodyOrder ==
    \A rec \in HeldRecords :
        Extracted(rec) =>
            LET m == SourceOf(rec)
                cut(t) == SubSeq(t, 1, IF Len(t) > 1000 THEN 1000 ELSE Len(t))
            IN  /\ HasFlat(m) =>
                      rec.body = cut(TextOf(m.payload[1].body[1].data[1]))
                /\ (~HasFlat(m) /\ FirstPlain(m) = 0) => rec.body = <<>>
                /\ (~HasFlat(m) /\ FirstPlain(m) > 0) =>
                      LET part == m.payload[1].parts[1][FirstPlain(m)] IN
                      IF HasData(part)
                      THEN rec.body = cut(TextOf(part.body[1].data[1]))
                      ELSE rec.body = <<>>

\* A stored record with an empty body: the message has no flat body and its
\* first plain-text part has no data, while a later plain-text part has.
C22_Witness ==
    /\ mailbox # None /\ ~HasFlat(mailbox[1])
    /\ FirstPlain(mailbox[1]) > 0
    /\ LET parts == mailbox[1].payload[1].parts[1] IN
       /\ ~HasData(parts[FirstPlain(mailbox[1])])
       /\ \E j \in 1..Len(parts) :
             j > FirstPlain(mailbox[1]) /\ parts[j].mimeType = "text/plain"
               /\ HasData(parts[j])
    /\ list # <<>> /\ list[1].body = <<>> /\ list[1].id \notin {"m1", "m2"}

\* The value of the first header of a raw message whose name is key in some
\* letter case, "" if there is none.
FirstHeader(m, variants) ==
    IF m.payload = None \/ m.payload[1].headers = None THEN ""
    ELSE LET hs == m.payload[1].headers[1]
             hits == {i \in 1..Len(hs) : hs[i].name \in variants}
         IN  IF hits = {} THEN ""
             ELSE hs[CHOOSE i \in hits : \A j \in hits : i <= j].value

\* C23: for every raw message, one with no payload, no headers, no id, no
\* thread id or no snippet included, a messages.get that succeeded yields a
\* record (the fetch is not caught as failed), in which id, threadId and
\* snippet are the message's or "", and subject, from, to and date are the
\* value of the first header of that name in any letter case, or "".
C23_ExtractTotal ==
    /\ \A p \in Posts :
          ( /\ post[p].path = "fallback" /\ post[p].page = Some(<< Some("m3") >>)
            /\ HasCall(post[p], "messages.get") /\ ~post[p].provFailed )
          => /\ Len(post[p].fetched) = 1 /\ post[p].nAdd = 1
             /\ post[p].fetched[1] =
                  (IF SourceOf([id |-> "m3"]).id = None THEN ""
                   ELSE SourceOf([id |-> "m3"]).id[1])
    /\ \A rec \in HeldRecords :
          Extracted(rec) =>
              LET m == SourceOf(rec) IN
              /\ rec.id = IF m.id = None THEN "" ELSE m.id[1]
              /\ rec.threadId = IF m.threadId = None THEN "" ELSE m.threadId[1]
              /\ rec.snippet = IF m.snippet = None THEN "" ELSE m.snippet[1]
              /\ rec.subject = FirstHeader(m, {"Subject", "SUBJECT", "subject"})
              /\ rec.from = FirstHeader(m, {"From", "FROM", "from"})
              /\ rec.to = FirstHeader(m, {"To", "TO", "to"})
              /\ rec.date = FirstHeader(m, {"Date", "DATE", "date"})

\* The record of a message that has no field at all has been stored.
C23_Witness ==
    /\ mailbox = Some([id |-> None, threadId |-> None, payload |-> None,
                       snippet |-> None])
    /\ list # <<>>
    /\ list[1].id = "" /\ list[1].subject = "" /\ list[1].from = ""
    /\ list[1].snippet = "" /\ list[1].body = <<>>
    /\ "" \in DOMAIN byId

\* C24: with a clock that never goes back, the list read newest-first has
\* non-increasing receivedAt values, also while several notifications are
\* processed at once.
C24_ReceivedAtOrdered ==
    \A i \in 1..Len(list) : \A j \in 1..Len(list) :
        i < j => list[i].receivedAt >= list[j].receivedAt

\* C25: at the step on which an insert reports success, getStats asked of
\* the store as that step leaves it, at that same time, returns a
\* lastReceived that is not null and not earlier than the inserted record's
\* receivedAt.
C25_LastReceivedUpdated ==
    [][ (Len(log') = Len(log) + 1 /\ log'[Len(log')].ok) =>
          LET st == getStatsOf(list', lastReceived', now') IN
          /\ st.lastReceived # None
          /\ st.lastReceived[1] >= log'[Len(log')].rec.receivedAt ]_vars

\* An insert has just reported success, and the last-received time is later
\* than the time the record was stamped with.
C25_Witness ==
    /\ log # <<>> /\ LastLog.ok
    /\ \E p \in Posts : post[p].pc = "done" /\ post[p].nAdd > 0
    /\ getStats.lastReceived # None
    /\ getStats.lastReceived[1] > LastLog.rec.receivedAt

\* The number of added messages in the history a request was answered with.
NumAdded(r) == IF r.history = None THEN 0 ELSE Len(AddedIds(r.history[1]))

\* An upper bound on the steps a request still has to take, once it is past
\* history.list: five for every message still to fetch (the fetch and the
\* four commands of its insert), four for every record fetched and not yet
\* inserted, and what is left of the insert in progress.
StepsLeft(r) ==
    CASE r.pc = "messagesList" -> 6
      [] r.pc = "messagesGet"  -> 5
      [] r.pc = "historyGet"   -> 5 * Len(r.pending) + 4 * Len(r.emails)
      [] r.pc = "lpush"        -> 4 + 4 * Len(r.queue)
      [] r.pc = "ltrim"        -> 3 + 4 * Len(r.queue)
      [] r.pc = "set"          -> 2 + 4 * Len(r.queue)
      [] r.pc = "updateStats"  -> 1 + 4 * Len(r.queue)
      [] OTHER                 -> 0

\* C26: every request ends with a response when each call it makes returns
\* or fails; from history.list's answer on, every step of the request
\* lowers a count that starts at no more than five times the number of
\* added messages in that answer (six when there is none), so there is no
\* loop that runs forever and no retry; the request makes at most one
\* messages.get and one insert per added message (one on the fallback and
\* placeholder ways).
C26_AlwaysTerminates ==
    /\ \A p \in Posts : (post[p].pc # "idle") ~> (post[p].pc = "done")
    /\ [][ \A p \in Posts :
             (post'[p] # post[p] /\ post[p].pc \notin {"idle", "historyList"})
                => StepsLeft(post'[p]) < StepsLeft(post[p]) ]_vars
    /\ [](\A p \in Posts :
             LET r == post[p]
                 most == IF NumAdded(r) = 0 THEN 1 ELSE NumAdded(r)
             IN  /\ r.history # None
                    => StepsLeft(r) <= (IF NumAdded(r) = 0 THEN 6
                                        ELSE 5 * NumAdded(r))
                 /\ r.history = None => StepsLeft(r) <= 4
                 /\ r.nAdd <= most
                 /\ Len(r.calls) <= 2 + most
                 /\ r.pc = "done" => r.resp # None)

\* A request has ended after a history with two added messages: three
\* provider calls, two inserts, the first of which failed.
C26_Witness ==
    \E p \in Posts :
        /\ post[p].pc = "done" /\ post[p].resp = Some(AckResponse)
        /\ NumAdded(post[p]) = 2 /\ Len(post[p].calls) = 3
        /\ post[p].nAdd = 2 /\ post[p].addFailed

\* The step adds a record: the list gets longer, or a by-id key is written.
AddsRecord ==
    \/ Len(list') > Len(list)
    \/ \E id \in DOMAIN byId' : id \notin DOMAIN byId \/ byId'[id] # byId[id]

C28_DeleteReportsFailure ==
    clr.pc = "done" =>
        /\ EmailsDeleteResponse(clr.result[1]).success = clr.result[1]
        /\ CleanupDeleteResponse(clr.result[1]).success = clr.result[1]

\* C29: a GET with no limit parameter answers with the first min(default,
\* length) records of the list, the default being 50 in the code; a GET whose limit is above the cap answers with the whole list; and
\* no GET answers with more records than the list holds (the list not
\* changing during the request, and no call of it failing).
C29_DefaultLimit ==
    ( /\ rd.op = "GET" /\ rd.pc = "done" /\ rd.failed = {} /\ Undisturbed )
    => LET emails == rd.result[1].emails IN
       /\ Len(emails) <= Len(list)
       /\ rd.param = None
            => emails = SubSeq(list, 1, Min(DefaultLimit, Len(list)))
       /\ rd.param = Some(<<ToString(maxEmails + 1)>>) => emails = list

\* A GET with no limit parameter has answered with one record of a list of
\* two.
C29_Witness ==
    /\ rd.op = "GET" /\ rd.pc = "done" /\ rd.failed = {} /\ Undisturbed
    /\ rd.param = None
    /\ Len(list) > DefaultLimit /\ Len(rd.result[1].emails) = DefaultLimit
    /\ rd.result[1].emails[1] = list[1]

\* The by-id keys whose entry differs between the two states of a step.
ChangedKeys ==
    {id \in DOMAIN byId \cup DOMAIN byId' :
        \/ id \notin DOMAIN byId \/ id \notin DOMAIN byId'
        \/ byId'[id] # byId[id]}

\* C30: on a step that is not clear()'s, the by-id keys change only on the
\* set of an insert, and then no key but the inserted record's id; the list
\* changes only by a push, which puts one entry in front of the others, or
\* by a trim, which drops entries from the tail; the entries that remain
\* keep their content and their order.
C30_SelfContained ==
    [][ clr' = clr =>
          /\ ChangedKeys # {} =>
                \E p \in Posts :
                    /\ post[p].pc = "set" /\ post'[p].pc = "updateStats"
                    /\ ChangedKeys = {post[p].rec[1].id}
                    /\ byId'[post[p].rec[1].id].val = post[p].rec[1]
          /\ \/ list' = list
             \/ \E p \in Posts :
                    /\ post[p].pc = "lpush"
                    /\ list' = <<post[p].rec[1]>> \o list
             \/ \E p \in Posts :
                    /\ post[p].pc = "ltrim"
                    /\ Len(list') < Len(list)
                    /\ list' = SubSeq(list, 1, Len(list')) ]_vars

\* A trim has just dropped the oldest record, the first one inserted, from a
\* full list; its by-id key is still there.
C30_Witness ==
    /\ clr.pc = "idle"
    /\ post[1].pc = "set" /\ Len(list) = maxEmails
    /\ list[1] = post[1].rec[1]
    /\ Len(log) >= 2 /\ log[1].ok /\ log[2].ok
    /\ \A i \in 1..Len(list) : list[i] # log[1].rec
    /\ list[2] = log[2].rec
    /\ log[1].rec.id \in DOMAIN byId

\* The records that have been passed to addEmail so far: those of the calls
\* that returned and those of the calls in progress.
PassedToInsert ==
    {log[i].rec : i \in 1..Len(log)}
      \cup {post[p].rec[1] : p \in {q \in Posts : InAddEmail(q)}}

\* C31: the record held by the by-id index under the id k has the id k, and
\* every record in the list is, field for field, a record that was passed to
\* an insert.
C31_IdsImmutable ==
    /\ \A k \in DOMAIN byId :
          /\ byId[k].val.id = k
          /\ byId[k].val \in PassedToInsert
    /\ \A i \in 1..Len(list) : list[i] \in PassedToInsert

\* Two records with different ids are in the list and in the index, after
\* the request that inserted the first of them is gone.
C31_Witness ==
    /\ Len(list) = 2 /\ list[1].id # list[2].id
    /\ {list[1].id, list[2].id} \subseteq DOMAIN byId
    /\ byId[list[2].id].val = list[2]
    /\ served > 0 /\ post[1].pc = "done"

\* A JSON string literal: the characters between quotes, " and \ escaped.
RECURSIVE Escaped(_)
Escaped(chars) ==
    IF chars = <<>> THEN <<>>
    ELSE (IF chars[1] \in {"\"", "\\"} THEN <<"\\", chars[1]>> ELSE <<chars[1]>>)
           \o Escaped(Tail(chars))

JsonValue(v) ==
    IF v.t = "num" THEN v.s ELSE <<"\"">> \o Escaped(v.s) \o <<"\"">>

\* JSON.stringify of a notification {emailAddress, historyId}; an absent
\* field is left out.
JsonStringify(n) ==
    LET email == IF n.emailAddress = None THEN <<>>
                 ELSE << <<"\"", "e", "m", "a", "i", "l", "A", "d", "d", "r",
                           "e", "s", "s", "\"", ":">>
                           \o JsonValue(n.emailAddress[1]) >>
        cursor == IF n.historyId.t = "absent" THEN <<>>
                  ELSE << <<"\"", "h", "i", "s", "t", "o", "r", "y", "I", "d",
                            "\"", ":">> \o JsonValue(n.historyId) >>
        members == email \o cursor
    IN  <<"{">>
          \o (IF members = <<>> THEN <<>>
              ELSE IF Len(members) = 1 THEN members[1]
              ELSE members[1] \o <<",">> \o members[2])
          \o <<"}">>

\* Base64 of a text: three bytes make four characters, the last group
\* padded with "=".
RECURSIVE ToBase64(_)
ToBase64(text) ==
    IF text = <<>> THEN <<>>
    ELSE LET b1 == CharCode(text[1])
             b2 == IF Len(text) >= 2 THEN CharCode(text[2]) ELSE 0
             b3 == IF Len(text) >= 3 THEN CharCode(text[3]) ELSE 0
             c(k) == Base64Alphabet[k + 1]
         IN  << c(b1 \div 4), c((b1 % 4) * 16 + b2 \div 16),
                IF Len(text) >= 2 THEN c((b2 % 16) * 4 + b3 \div 64) ELSE "=",
                IF Len(text) >= 3 THEN c(b3 % 64) ELSE "=" >>
               \o (IF Len(text) > 3 THEN ToBase64(SubSeq(text, 4, Len(text)))
                   ELSE <<>>)

\* The notification decodes to an account and a cursor.
ValidEvent(n) ==
    n.json = "object" /\ n.emailAddress # None /\ n.historyId.t # "absent"

\* C32: for the data of every valid notification, decoding it, writing the
\* decoded event as JSON in base64 and decoding that again gives the same
\* event, account and cursor; and the cursor the handler goes on with is
\* the decoded one.
C32_DecodeRoundTrip ==
    wire # None =>
        LET n == Decode(wire[1]) IN
        ValidEvent(n) =>
            /\ Decode(ToBase64(JsonStringify(n))) = n
            /\ \A p \in Posts :
                  post[p].pc # "idle" => post[p].cursor = n.historyId

\* The request of a notification whose account holds a quote and a
\* backslash, written escaped and after the cursor, has ended; its data is
\* not what the re-encoding gives.
C32_Witness ==
    /\ wire = Some(WireEscaped)
    /\ post[1].pc = "done" /\ post[1].cursor = CurNum
    /\ Decode(WireEscaped).emailAddress
         = Some([t |-> "str", s |-> <<"a", "\"", "b", "\\", "c">>])
    /\ ToBase64(JsonStringify(Decode(WireEscaped))) # WireEscaped
    /\ Decode(WireBig).historyId = [t |-> "num", s |-> <<"1", "2">>]
    /\ Decode(WireNeg).historyId = CurNeg
    /\ Decode(WireStr).historyId = CurStr
    /\ Decode(WireTest).historyId = CurTest
    /\ Decode(WireNotJson).json = "invalid" /\ Decode(WireNull).json = "null"
    /\ ToBase64(JsonStringify(Decode(WireNum))) = WireNum
    /\ ToBase64(JsonStringify(Decode(WireStr))) = WireStr

RECURSIVE SumAdds(_)
SumAdds(ps) ==
    IF ps = {} THEN 0
    ELSE LET p == CHOOSE q \in ps : TRUE IN post[p].nAdd + SumAdds(ps \ {p})

\* How many times rec occurs in lst between the positions a and b.
Occurs(lst, a, b, rec) == Cardinality({i \in a..b : lst[i] = rec})

\* C33: when the requests that arrived together have all ended, no backend
\* call having failed and no clear having run, the list holds min(N,
\* previous length + k) entries, k being the number of their inserts, and
\* when k <= N its first k entries are the k records inserted.
C33_NoLostInsert ==
    ( /\ served > 0 /\ faults = 0 /\ clr.pc = "idle"
      /\ \A p \in Posts : post[p].pc = "done" )
    => LET k == SumAdds(Posts)
           logRecs == [i \in 1..Len(log) |-> log[i].rec]
           prev == Min(maxEmails, Len(log) - k)
       IN  /\ Len(list) = Min(maxEmails, prev + k)
           /\ k <= maxEmails =>
                \A i \in 1..Len(log) :
                    i > Len(log) - k =>
                        Occurs(list, 1, k, log[i].rec)
                          = Occurs(logRecs, Len(log) - k + 1, Len(log),
                                   log[i].rec)

\* Two requests that ran together, one insert each, have ended on a store
\* that held two records: their two records are the list.
C33_Witness ==
    /\ served > 0 /\ faults = 0
    /\ \A p \in Posts : post[p].pc = "done" /\ post[p].nAdd = 1
    /\ Len(log) = 4 /\ Len(list) = maxEmails
    /\ list[1] # list[2]
    /\ {list[1], list[2]} = {log[3].rec, log[4].rec}
    /\ log[1].rec \notin {list[1], list[2]}

\* The inserts that have returned with their trim failed and no insert
\* trimming since: the last entries of the log, back to the latest insert
\* that got past its trim.
RECURSIVE FailedTrims(_)
FailedTrims(entries) ==
    IF entries = <<>> THEN 0
    ELSE LET last == entries[Len(entries)]
             before == SubSeq(entries, 1, Len(entries) - 1) IN
         IF last.step = "ltrim" THEN 1 + FailedTrims(before)
         ELSE IF last.step = "lpush" THEN FailedTrims(before)
         ELSE 0

\* The inserts that have pushed and not trimmed: those waiting for their
\* trim and, unless one is past its trim, those whose trim failed.
Untrimmed ==
    Cardinality({p \in Posts : post[p].pc = "ltrim"})
      + (IF \E p \in Posts : post[p].pc \in {"set", "updateStats"} THEN 0
         ELSE FailedTrims(log))

Pushed(rec) ==
    \/ \E i \in 1..Len(log) : log[i].rec = rec /\ log[i].step # "lpush"
    \/ \E p \in Posts :
          InAddEmail(p) /\ post[p].rec[1] = rec /\ post[p].pc # "lpush"

\* A step of an insert goes from a command to the next one, in the order
\* push, trim, by-id set, last-received update, or the insert returns.
InsertOrder ==
    \A p \in Posts :
        post'[p] # post[p] =>
            /\ ~InAddEmail(p) => post'[p].pc \notin {"ltrim", "set", "updateStats"}
            /\ (InAddEmail(p) /\ log' = log) =>
                  <<post[p].pc, post'[p].pc>> \in
                      { <<"lpush", "ltrim">>, <<"ltrim", "set">>,
                        <<"set", "updateStats">> }
            /\ (InAddEmail(p) /\ log' # log) =>
                  /\ log' = Append(log, log'[Len(log')])
                  /\ log'[Len(log')].rec = post[p].rec[1]
                  /\ log'[Len(log')].ok = (post[p].pc = "updateStats"
                                             /\ faults' = faults)
                  /\ post'[p].pc \in {"lpush", "done"}

\* C35: the commands of an insert run in the order push, trim, by-id set,
\* last-received update; so the by-id index never holds a record that no
\* insert has pushed onto the list, and a reader's getEmail never returns
\* one, while a record can be in the list, and be read there, before its
\* by-id key is written.
C35_PushBeforeById ==
    /\ [](/\ \A k \in DOMAIN byId : Pushed(byId[k].val)
          /\ (rd.op = "getEmail" /\ rd.pc = "done" /\ rd.result # None)
                => Pushed(rd.result[1]))
    /\ [][InsertOrder]_vars

\* A reader's getEmails has returned a record that the insert in progress
\* has pushed, and there is no by-id key under its id yet.
C35_Witness ==
    /\ post[1].pc \in {"ltrim", "set"}
    /\ post[1].rec[1].id \notin DOMAIN byId
    /\ rd.op = "getEmails" /\ rd.pc = "done" /\ rd.failed = {}
    /\ rd.emails # None /\ rd.emails[1] # <<>>
    /\ rd.emails[1][1] = post[1].rec[1]
    /\ getEmail(post[1].rec[1].id) = None

\* C36: an insert returns true exactly on the step on which its fourth
\* command, the last-received update, succeeds, the push, the trim and the
\* by-id set having been done before it; when a command fails the insert
\* returns false on that step, which changes nothing in the store: what the
\* earlier commands did stays, the later commands are not run.
C36_SuccessIffAllSteps ==
    [][ \A p \in Posts :
          (InAddEmail(p) /\ Len(log') = Len(log) + 1) =>
            LET e == log'[Len(log')]
                r == post[p].rec[1]
                at == post[p].pc
            IN  /\ e.rec = r
                /\ e.ok <=> (at = "updateStats" /\ faults' = faults)
                /\ e.ok =>
                      /\ list' = list /\ list[1] = r /\ Len(list) <= maxEmails
                      /\ byId' = byId /\ byId[r.id].val = r
                      /\ lastReceived' = Some(SetEx(now, TTL, now))
                      /\ post'[p].addFailed = post[p].addFailed
                /\ ~e.ok =>
                      /\ e.step = at /\ faults' = faults + 1
                      /\ store' = store
                      /\ post'[p].addFailed
                      /\ post'[p].pc \in {"lpush", "done"}
                      /\ at \in {"ltrim", "set", "updateStats"} => list[1] = r
                      /\ at = "updateStats" => byId[r.id].val = r ]_vars

\* The request has ended after an insert whose by-id set failed: the record
\* is in the list, there is no by-id key under its id and no last-received
\* time.
C36_Witness ==
    /\ post[1].pc = "done" /\ post[1].addFailed
    /\ log # <<>> /\ ~LastLog.ok /\ LastLog.step = "set"
    /\ list # <<>> /\ list[1] = LastLog.rec
    /\ LastLog.rec.id \notin DOMAIN byId
    /\ lastReceived = None
    /\ getEmail(LastLog.rec.id) = None

\* C37: once a clear() and the requests that ran beside it have all ended
\* (no call having failed), either the list is empty and last-received is
\* null or the list is not empty and last-received is not null, and every
\* record in the list is found by its id.
C37_ConsistentAfterClear ==
    ( /\ clr.pc = "done" /\ faults = 0
      /\ \A p \in Posts : post[p].pc = "done" )
    => /\ (list = <<>>) <=> (getStats.lastReceived = None)
       /\ \A i \in 1..Len(list) : getEmail(list[i].id) # None

\* The ids of the added messages of one history entry from position j on,
\* in their order, those without an id left out.
RECURSIVE EntryIds(_, _)
EntryIds(entry, j) ==
    IF entry = None \/ j > Len(entry[1]) THEN <<>>
    ELSE (IF entry[1][j] = None THEN <<>> ELSE <<entry[1][j][1]>>)
           \o EntryIds(entry, j + 1)

\* The same over the entries of a history from position i on.
RECURSIVE HistoryIds(_, _)
HistoryIds(history, i) ==
    IF i > Len(history) THEN <<>>
    ELSE EntryIds(history[i], 1) \o HistoryIds(history, i + 1)

YieldsNothing(r) ==
    \/ r.pc = "done" /\ r.path = "none"
    \/ r.path = "invalid"
    \/ /\ r.history = Some(<<>>) /\ r.page # None
       /\ (r.page[1] = <<>> \/ r.page[1][1] = None)
    \/ /\ r.history # None /\ r.history[1] # <<>>
       /\ HistoryIds(r.history[1], 1) = <<>>

\* C39: a request that yields no record makes no insert, and the steps of a
\* request outside its inserts change neither the list nor the by-id keys
\* nor the last-received key: the store is left as it was.
C39_NoRecordNoChange ==
    /\ [](\A p \in Posts :
             YieldsNothing(post[p]) =>
                 /\ post[p].nAdd = 0 /\ ~InAddEmail(p)
                 /\ post[p].fetched = <<>>
                 /\ post[p].pc = "done")
    /\ [][ \A p \in Posts :
             (post'[p] # post[p] /\ ~InAddEmail(p)) => store' = store ]_vars

\* After a request that stored a record, a request whose history holds no
\* added message has ended: the record is still the list.
C39_Witness ==
    /\ served > 0 /\ post[1].pc = "done" /\ post[1].history = Some(<< None >>)
    /\ post[1].nAdd = 0 /\ clr.pc = "idle"
    /\ Len(list) = 1 /\ Len(log) = 1 /\ list[1] = log[1].rec
    /\ lastReceived # None /\ list[1].id \in DOMAIN byId

\* No backend command of an addEmail or clear call has failed so far.
NoBackendFailure ==
    /\ \A i \in 1..Len(log) : log[i].ok
    /\ clr.result # Some(FALSE)
    /\ \A p \in Posts : ~post[p].addFailed

\* Both stores have received the same calls and none is in progress.
SameCalls ==
    /\ BothCalled
    /\ ClearQuiet
    /\ \A p \in Posts : ~InAddEmail(p)

IdsOfBoth ==
    DOMAIN byId \cup {list[i].id : i \in 1..Len(list)}
                \cup {memory.emails[i].id : i \in 1..Len(memory.emails)}

\* C40: after the same sequential series of addEmail and clear calls, none
\* of which failed, the in-memory store and the backend store list the same
\* records in the same order for every limit of at least 1, and report the
\* same totalEmails, newestEmail and oldestEmail; by id, the in-memory store
\* finds exactly the records still in the sequence, and for those the
\* backend store answers the same record unless its key has expired.
C40_StoresEquivalent ==
    (SameCalls /\ NoBackendFailure) =>
        /\ \A limit \in 1..(maxEmails + 1) :
              MemoryGetEmails(memory.emails, limit) = getEmails(limit)
        /\ MemoryGetStats(memory.emails).totalEmails = getStats.totalEmails
        /\ MemoryGetStats(memory.emails).newestEmail = getStats.newestEmail
        /\ MemoryGetStats(memory.emails).oldestEmail = getStats.oldestEmail
        /\ \A id \in IdsOfBoth :
              LET found == MemoryGetEmail(memory.emails, id) IN
              /\ (found # Undefined) <=> (getEmailFromList(id) # None)
              /\ found # Undefined =>
                    \/ getEmail(id) = found
                    \/ ~Alive(byId[id], now)

\* Three inserts and no failure: the oldest record has left both sequences,
\* the backend store still answers it by id, the in-memory store does not.
C40_Witness ==
    /\ SameCalls /\ NoBackendFailure
    /\ memory.adds > maxEmails
    /\ Len(memory.emails) = maxEmails
    /\ \E id \in IdsOfBoth :
          /\ getEmail(id) # None
          /\ MemoryGetEmail(memory.emails, id) = Undefined

====
